---- MODULE Spec2Model ----
(***************************************************************************)
(* Authentication and session lifecycle of the auth edge function           *)
(* (login, OAuth login, logout, validate, check-session) over the          *)
(* user_sessions and users tables.  Every await on the record store or on   *)
(* the identity service is one atomic step of a request; what a call writes *)
(* or filters by was computed when the handler made it.  scope is what a    *)
(* specification explores: the                                              *)
(* size of the session table, the clock ticks, the store faults, the        *)
(* devices and OAuth identities requests come from, and the request slots   *)
(* in use.  It is set by the initial condition and never changes.           *)
(***************************************************************************)
EXTENDS Integers, Sequences, FiniteSets, TLC

VARIABLES now, users, sessions, rq, nfail, last, resp, revoked, scope

vars == <<now, users, sessions, rq, nfail, last, resp, revoked, scope>>

----------------------------------------------------------------------------
(* Bounds of the model *)

\* clock ticks of half a token lifetime, in SpecConflict, SpecExpiry,
\* SpecSession and SpecCheck
MaxTicks == 2
\* session rows, in SpecStore, SpecConflict, SpecExpiry, SpecRaceOut, Spec,
\* SpecSession and SpecCheck
MaxRows == 2
\* store calls that fail in one run
MaxFaults == 1
\* session rows in SpecLogin and SpecRace
LoginRows == 3

Procs == {1, 2}

----------------------------------------------------------------------------
(* Program constants *)

\* 7 * 24 * 60 * 60 seconds: setExpirationTime('7d') and setDate(getDate() + 7)
SEVEN_DAYS == 604800

Null == "null"
TEST_HASH == "$2a$06$3a0FMWf9jfml3C7.2YiH4u.LA5nH4GUQNChFsMLyiFrjMKtkr/TPa"
TEST_PASSWORD == "initialpassword"

----------------------------------------------------------------------------
(* Emails: toLowerCase().trim() and the format test /\S+@\S+\.\S+/ *)

Emails == {"a@x.io", " A@X.io", "new@x.io", "nobody", ""}

LowerTrim(e) ==
    CASE e = " A@X.io" -> "a@x.io"
      [] OTHER -> e

EmailFormatOk(e) == e \in {"a@x.io", " A@X.io", "new@x.io"}

----------------------------------------------------------------------------
(* verifyPassword: only the hard-coded test pair is accepted *)

IsBcrypt(hash) == hash = TEST_HASH \/ hash = "$2b$10$otherhash"

verifyPassword(password, hash) ==
    IF IsBcrypt(hash)
    THEN password = TEST_PASSWORD /\ hash = TEST_HASH
    ELSE FALSE

----------------------------------------------------------------------------
(* Device fingerprint.  A user agent is the set of marker substrings it     *)
(* contains; NoUA is a missing header.                                      *)

NoUA == {"<none>"}
UA_ChromeMac == {"Chrome", "Safari", "Mac"}
UA_SafariIPhone == {"Safari", "Mac", "iPhone", "Mobile"}
UA_FirefoxWindows == {"Firefox", "Windows"}

NoHint == [browser |-> "", os |-> "", device |-> ""]

extractDeviceInfo(ua, hint) ==
    LET has(m) == ua # NoUA /\ m \in ua
        browser == IF has("Chrome") THEN "Chrome"
                   ELSE IF has("Firefox") THEN "Firefox"
                   ELSE IF has("Safari") THEN "Safari"
                   ELSE IF has("Edge") THEN "Edge"
                   ELSE IF has("Opera") THEN "Opera"
                   ELSE "Unknown"
        os == IF has("Windows") THEN "Windows"
              ELSE IF has("Mac") THEN "macOS"
              ELSE IF has("Linux") THEN "Linux"
              ELSE IF has("Android") THEN "Android"
              ELSE IF has("iPhone") \/ has("iPad") THEN "iOS"
              ELSE "Unknown"
        mobile == has("Mobile") \/ has("Android") \/ has("iPhone") \/ has("iPad")
        device == IF mobile THEN "Mobile" ELSE "Desktop"
    IN  [browser |-> IF hint.browser # "" THEN hint.browser ELSE browser,
         os      |-> IF hint.os # "" THEN hint.os ELSE os,
         device  |-> IF hint.device # "" THEN hint.device ELSE device]

----------------------------------------------------------------------------
(* Tokens.  HS256 over the payload is deterministic: the token is its       *)
(* payload plus the state of its signature.                                 *)

NoToken == [userId |-> 0, email |-> "", type |-> "", iat |-> 0, exp |-> 0, sig |-> "absent"]

createJWT(userId, email, type, t) ==
    [userId |-> userId, email |-> email, type |-> type,
     iat |-> t, exp |-> t + SEVEN_DAYS, sig |-> "ok"]

Tamper(tok) == [tok EXCEPT !.sig = "bad"]

\* jose.jwtVerify: signature, then exp <= now fails; verifyJWT rethrows every
\* failure as the one Error('Invalid or expired token')
JoseVerify(tok, t) ==
    IF tok.sig # "ok" THEN "ERR_JWS_SIGNATURE_VERIFICATION_FAILED"
    ELSE IF tok.exp <= t THEN "ERR_JWT_EXPIRED"
    ELSE "payload"

verifyJWT(tok, t) ==
    IF JoseVerify(tok, t) = "payload"
    THEN [ok |-> TRUE, error |-> ""]
    ELSE [ok |-> FALSE, error |-> "Invalid or expired token"]

----------------------------------------------------------------------------
(* Session Store Adapter: the user_sessions table is the sequence of its    *)
(* rows in insertion order (session_id = position).  Each operator takes    *)
(* the table S, the clock t at which the call was made (the query and the   *)
(* values it writes are built then) and whether the store reports an error, *)
(* and returns its result together with the table it leaves.                *)

\* a variant whose row lives half as long as the token
NewSessionShortLived(id, userId, sessionToken, deviceInfo, loginMethod, t, stored) ==
    [session_id    |-> id,
     user_id       |-> userId,
     session_token |-> sessionToken,
     device_info   |-> deviceInfo,
     login_method  |-> loginMethod,
     created_at    |-> stored,
     updated_at    |-> stored,
     expires_at    |-> t + SEVEN_DAYS \div 2,
     is_active     |-> TRUE,
     last_activity |-> t]

NewSession(id, userId, sessionToken, deviceInfo, loginMethod, t, stored) ==
    [session_id    |-> id,
     user_id       |-> userId,
     session_token |-> sessionToken,
     device_info   |-> deviceInfo,
     login_method  |-> loginMethod,
     created_at    |-> stored,
     updated_at    |-> stored,
     expires_at    |-> t + SEVEN_DAYS,
     is_active     |-> TRUE,
     last_activity |-> t]

\* t is the clock when the call is made: expiresAt and last_activity are
\* computed as the insert is built; stored is the clock when the store
\* performs it and fills in created_at and updated_at
createSession(S, userId, sessionToken, deviceInfo, loginMethod, t, stored, fail) ==
    IF fail
    THEN [success |-> FALSE, store |-> S]
    ELSE [success |-> TRUE,
          store |-> Append(S, NewSession(Len(S) + 1, userId, sessionToken,
                                         deviceInfo, loginMethod, t, stored))]

\* a variant that reports an error when the update matches no active row
invalidateSessionStrict(S, sessionToken, t, fail) ==
    IF fail \/ ~\E i \in DOMAIN S : S[i].session_token = sessionToken /\ S[i].is_active
    THEN [success |-> FALSE, store |-> S]
    ELSE [success |-> TRUE,
          store |-> [i \in DOMAIN S |->
                       IF S[i].session_token = sessionToken
                       THEN [S[i] EXCEPT !.is_active = FALSE, !.updated_at = t]
                       ELSE S[i]]]

invalidateSession(S, sessionToken, t, fail) ==
    IF fail
    THEN [success |-> FALSE, store |-> S]
    ELSE [success |-> TRUE,
          store |-> [i \in DOMAIN S |->
                       IF S[i].session_token = sessionToken
                       THEN [S[i] EXCEPT !.is_active = FALSE, !.updated_at = t]
                       ELSE S[i]]]

\* a variant without the neq('session_token', ...) filter
invalidateAllSessions(S, userId, currentSessionToken, t, fail) ==
    LET hit(i) == S[i].user_id = userId /\ S[i].is_active
    IN  IF fail
        THEN [success |-> FALSE, invalidatedCount |-> 0, store |-> S]
        ELSE [success |-> TRUE,
              invalidatedCount |-> Cardinality({i \in DOMAIN S : hit(i)}),
              store |-> [i \in DOMAIN S |->
                           IF hit(i)
                           THEN [S[i] EXCEPT !.is_active = FALSE, !.updated_at = t]
                           ELSE S[i]]]

\* currentSessionToken = NoToken is the omitted (undefined) argument
invalidateOtherSessions(S, userId, currentSessionToken, t, fail) ==
    LET hit(i) == /\ S[i].user_id = userId
                  /\ S[i].is_active
                  /\ (currentSessionToken # NoToken
                        => S[i].session_token # currentSessionToken)
    IN  IF fail
        THEN [success |-> FALSE, invalidatedCount |-> 0, store |-> S]
        ELSE [success |-> TRUE,
              invalidatedCount |-> Cardinality({i \in DOMAIN S : hit(i)}),
              store |-> [i \in DOMAIN S |->
                           IF hit(i)
                           THEN [S[i] EXCEPT !.is_active = FALSE, !.updated_at = t]
                           ELSE S[i]]]

\* a variant that does not filter on expires_at
validateSessionUnfiltered(S, sessionToken, t, fail) ==
    LET rows == {i \in DOMAIN S : /\ S[i].session_token = sessionToken
                                  /\ S[i].is_active}
    IN  IF fail \/ Cardinality(rows) # 1
        THEN [valid |-> FALSE, session |-> 0]
        ELSE [valid |-> TRUE, session |-> CHOOSE i \in rows : TRUE]

\* .single() is an error unless exactly one row matches
validateSession(S, sessionToken, t, fail) ==
    LET rows == {i \in DOMAIN S : /\ S[i].session_token = sessionToken
                                  /\ S[i].is_active
                                  /\ S[i].expires_at > t}
    IN  IF fail \/ Cardinality(rows) # 1
        THEN [valid |-> FALSE, session |-> 0]
        ELSE [valid |-> TRUE, session |-> CHOOSE i \in rows : TRUE]

\* a variant whose update also marks the rows active
updateSessionActivityReviving(S, sessionToken, t, fail) ==
    IF fail
    THEN [success |-> FALSE, store |-> S]
    ELSE [success |-> TRUE,
          store |-> [i \in DOMAIN S |->
                       IF S[i].session_token = sessionToken
                       THEN [S[i] EXCEPT !.last_activity = t, !.updated_at = t,
                                         !.is_active = TRUE]
                       ELSE S[i]]]

updateSessionActivity(S, sessionToken, t, fail) ==
    IF fail
    THEN [success |-> FALSE, store |-> S]
    ELSE [success |-> TRUE,
          store |-> [i \in DOMAIN S |->
                       IF S[i].session_token = sessionToken
                       THEN [S[i] EXCEPT !.last_activity = t, !.updated_at = t]
                       ELSE S[i]]]

\* .order('last_activity', { ascending: false }): the orders the store may
\* return the rows ids in.  last_activity is stored with milliseconds and the
\* clock counts seconds, so of two rows with the same last_activity here
\* either may be the later one, and the query names no second key: rows of
\* equal last_activity come in any order
ByLastActivityDesc(S, ids) ==
    {o \in [1..Cardinality(ids) -> ids] :
        /\ \A a, b \in DOMAIN o : a # b => o[a] # o[b]
        /\ \A a, b \in DOMAIN o :
             a < b => S[o[a]].last_activity >= S[o[b]].last_activity}

\* a variant that compares the browser only
DifferentBrowser(deviceInfo, currentDeviceInfo) ==
    deviceInfo.browser # currentDeviceInfo.browser

DifferentDevice(deviceInfo, currentDeviceInfo) ==
    \/ deviceInfo.browser # currentDeviceInfo.browser
    \/ deviceInfo.os # currentDeviceInfo.os
    \/ deviceInfo.device # currentDeviceInfo.device

\* what checkSessionConflict returns when the query returned the rows
\* activeSessions; message = -1 is the absent message, otherwise the N it
\* reports
ConflictOf(S, activeSessions, currentDeviceInfo, fail) ==
    LET differentDeviceSessions ==
            SelectSeq(activeSessions,
                      LAMBDA i : DifferentDevice(S[i].device_info, currentDeviceInfo))
        hasConflict == Len(differentDeviceSessions) > 0
        shouldPrompt == hasConflict /\ Len(differentDeviceSessions) > 0
        none == [hasConflict |-> FALSE, activeSessions |-> <<>>,
                 shouldPrompt |-> FALSE, message |-> -1]
    IN  IF fail THEN none
        ELSE IF Len(activeSessions) = 0 THEN none
        ELSE [hasConflict |-> hasConflict,
              activeSessions |-> activeSessions,
              shouldPrompt |-> shouldPrompt,
              message |-> IF shouldPrompt THEN Len(differentDeviceSessions) ELSE -1]

\* the results checkSessionConflict can return: one for each order the store
\* may return the matching rows in
checkSessionConflict(S, userId, currentDeviceInfo, t, fail) ==
    LET ids == {i \in DOMAIN S : /\ S[i].user_id = userId
                                 /\ S[i].is_active
                                 /\ S[i].expires_at > t}
    IN  {ConflictOf(S, activeSessions, currentDeviceInfo, fail) :
            activeSessions \in ByLastActivityDesc(S, ids)}

----------------------------------------------------------------------------
(* The clock, in seconds.  Between two steps no time passes that the        *)
(* seconds of a token can tell, or half a token lifetime passes: a session  *)
(* is then fresh, one tick old and alive, or two ticks old and expired.     *)

HALF_LIFE == SEVEN_DAYS \div 2

TicksTaken == now \div HALF_LIFE

----------------------------------------------------------------------------
(* The adapter and the token functions called directly.  A call takes two   *)
(* steps: the function reads the clock for the timestamps and bounds it     *)
(* sends, builds the query and awaits the store (rq[p] is the call caller p *)
(* awaits, rq[p].t the clock it read); later the store performs the query   *)
(* on the table as it then is and the function returns.  Time passes and    *)
(* other calls are made and performed in between.  last is the call that    *)
(* returns: its arguments, the clock it read (t), the clock when the store  *)
(* performed it (at), the table the store found (pre) and what the function *)
(* returns; sessions is then the table the store left.  resp is the         *)
(* successful invalidateSession whose update was the last write to the      *)
(* table, if the last write was one.                                        *)

EmailOf(u) == IF u = 1 THEN "a@x.io" ELSE "new@x.io"

\* the users the calls name
UserIds == {u \in {1, 2} : EmailOf(u) \in scope.identities}

\* the devices sessions are created from
RowDevices == {extractDeviceInfo(ua, NoHint) : ua \in scope.agents}

\* the candidate devices: those and the same on a mobile device
StoreDevices ==
    RowDevices \cup {extractDeviceInfo(ua, [NoHint EXCEPT !.device = "Mobile"]) :
                       ua \in scope.agents}

NoConflict == [hasConflict |-> FALSE, activeSessions |-> <<>>,
               shouldPrompt |-> FALSE, message |-> -1]

NoCall == [op |-> "none", userId |-> 0, token |-> NoToken, device |-> NoHint,
           t |-> 0, at |-> 0, fail |-> FALSE, pre |-> <<>>, success |-> FALSE,
           valid |-> FALSE, count |-> 0, conflict |-> NoConflict, outcome |-> ""]

\* tokens a caller can hold: those of the rows, one signed now, and forgeries
KnownTokens ==
    {sessions[i].session_token : i \in DOMAIN sessions}
      \cup {createJWT(1, EmailOf(1), "user", now)}

\* no call is returning and caller p awaits the call named op ("none": it
\* awaits nothing)
Awaits(p, op) == last = NoCall /\ p \in scope.procs /\ rq[p].op = op

\* caller p calls a function of the adapter: c is the call with the clock it
\* read
Called(p, c) ==
    /\ Awaits(p, "none")
    /\ rq' = [rq EXCEPT ![p] = [c EXCEPT !.t = now]]
    /\ UNCHANGED <<now, users, sessions, nfail, last, resp, revoked, scope>>

\* the store has performed the call of caller p and the function returns c
Returned(p, c) ==
    /\ rq' = [rq EXCEPT ![p] = NoCall]
    /\ last' = [c EXCEPT !.at = now, !.pre = sessions]
    /\ resp' = IF sessions' = sessions THEN resp
               ELSE IF c.op = "invalidateSession"
               THEN [NoCall EXCEPT !.op = c.op, !.token = c.token]
               ELSE NoCall
    /\ UNCHANGED <<now, users, nfail, revoked, scope>>

\* the caller has the result
StReturn ==
    /\ last # NoCall
    /\ last' = NoCall
    /\ UNCHANGED <<now, users, sessions, rq, nfail, resp, revoked, scope>>

\* the inserts awaited
Inserting == {p \in scope.procs : rq[p].op = "createSession"}

StCreateCall(p) ==
    \E u \in UserIds, d \in RowDevices :
      /\ Len(sessions) + Cardinality(Inserting) < scope.rows
      /\ Called(p, [NoCall EXCEPT !.op = "createSession", !.userId = u,
                      !.token = createJWT(u, EmailOf(u), "user", now),
                      !.device = d])

\* the store performs the insert, or fails, and createSession returns
StCreate(p) ==
    \E fail \in BOOLEAN :
      LET c == rq[p]
          r == createSession(sessions, c.userId, c.token, c.device, "email",
                             c.t, now, fail)
      IN  /\ Awaits(p, "createSession")
          /\ sessions' = r.store
          /\ Returned(p, [c EXCEPT !.fail = fail, !.success = r.success])

StInvalidateCall(p) ==
    \E tok \in KnownTokens :
      Called(p, [NoCall EXCEPT !.op = "invalidateSession", !.token = tok])

StInvalidate(p) ==
    \E fail \in BOOLEAN :
      LET c == rq[p]
          r == invalidateSession(sessions, c.token, c.t, fail)
      IN  /\ Awaits(p, "invalidateSession")
          /\ sessions' = r.store
          /\ Returned(p, [c EXCEPT !.fail = fail, !.success = r.success])

StInvalidateOthersCall(p) ==
    \E u \in UserIds, tok \in KnownTokens \cup {NoToken} :
      Called(p, [NoCall EXCEPT !.op = "invalidateOtherSessions", !.userId = u,
                   !.token = tok])

StInvalidateOthers(p) ==
    \E fail \in BOOLEAN :
      LET c == rq[p]
          r == invalidateOtherSessions(sessions, c.userId, c.token, c.t, fail)
      IN  /\ Awaits(p, "invalidateOtherSessions")
          /\ sessions' = r.store
          /\ Returned(p, [c EXCEPT !.fail = fail, !.success = r.success,
                                   !.count = r.invalidatedCount])

StValidateCall(p) ==
    \E tok \in KnownTokens :
      Called(p, [NoCall EXCEPT !.op = "validateSession", !.token = tok])

StValidate(p) ==
    \E fail \in BOOLEAN :
      LET c == rq[p]
          r == validateSession(sessions, c.token, c.t, fail)
      IN  /\ Awaits(p, "validateSession")
          /\ sessions' = sessions
          /\ Returned(p, [c EXCEPT !.fail = fail, !.valid = r.valid,
                                   !.count = r.session])

StTouchCall(p) ==
    \E tok \in KnownTokens :
      Called(p, [NoCall EXCEPT !.op = "updateSessionActivity", !.token = tok])

StTouch(p) ==
    \E fail \in BOOLEAN :
      LET c == rq[p]
          r == updateSessionActivity(sessions, c.token, c.t, fail)
      IN  /\ Awaits(p, "updateSessionActivity")
          /\ sessions' = r.store
          /\ Returned(p, [c EXCEPT !.fail = fail, !.success = r.success])

StConflictCall(p) ==
    \E u \in UserIds, d \in StoreDevices :
      Called(p, [NoCall EXCEPT !.op = "checkSessionConflict", !.userId = u,
                   !.device = d])

StConflict(p) ==
    \E fail \in BOOLEAN :
    \E r \in checkSessionConflict(sessions, rq[p].userId, rq[p].device,
                                  rq[p].t, fail) :
      /\ Awaits(p, "checkSessionConflict")
      /\ sessions' = sessions
      /\ Returned(p, [rq[p] EXCEPT !.fail = fail, !.conflict = r])

\* verifyJWT awaits no store: it reads the clock as it verifies
StVerify ==
    \E k \in KnownTokens, bad \in BOOLEAN :
      LET tok == IF bad THEN Tamper(k) ELSE k
          r == verifyJWT(tok, now)
      IN  /\ last = NoCall
          /\ sessions' = sessions
          /\ last' = [NoCall EXCEPT !.op = "verifyJWT", !.token = tok,
                                    !.t = now, !.at = now, !.pre = sessions,
                                    !.success = r.ok, !.outcome = r.error]
          /\ UNCHANGED <<now, users, rq, nfail, resp, revoked, scope>>

StTick ==
    /\ last = NoCall
    /\ TicksTaken < scope.ticks
    /\ now' = now + HALF_LIFE
    /\ UNCHANGED <<users, sessions, rq, nfail, last, resp, revoked, scope>>

\* a token lifetime passes: what was created before has expired
StWeek ==
    /\ last = NoCall
    /\ TicksTaken + 2 <= scope.ticks
    /\ now' = now + SEVEN_DAYS
    /\ UNCHANGED <<users, sessions, rq, nfail, last, resp, revoked, scope>>

\* the adapter with nothing called yet, for the users, devices, rows and
\* ticks given
StoreStart(rows, ticks, identities, agents) ==
    /\ now = 0
    /\ users = <<>>
    /\ sessions = <<>>
    /\ rq = [p \in Procs |-> NoCall]
    /\ nfail = 0
    /\ last = NoCall
    /\ resp = NoCall
    /\ revoked = {}
    /\ scope = [rows |-> rows, ticks |-> ticks, faults |-> 0,
                agents |-> agents, identities |-> identities, procs |-> Procs]

\* the writes: createSession and the two invalidations, two users on one
\* device, with verifyJWT
InitStore == StoreStart(MaxRows, 1, {"a@x.io", "new@x.io"}, {UA_ChromeMac})

NextStore ==
    \/ StTick
    \/ StReturn
    \/ StVerify
    \/ \E p \in Procs :
         \/ StCreateCall(p)
         \/ StCreate(p)
         \/ StInvalidateCall(p)
         \/ StInvalidate(p)
         \/ StInvalidateOthersCall(p)
         \/ StInvalidateOthers(p)

SpecStore == InitStore /\ [][NextStore]_vars

\* the conflict check: sessions of two users created on two devices and
\* ended, and rows that expire
InitConflict ==
    StoreStart(MaxRows, MaxTicks, {"a@x.io", "new@x.io"},
               {UA_ChromeMac, UA_FirefoxWindows})

NextConflict ==
    \/ StWeek
    \/ StReturn
    \/ \E p \in Procs :
         \/ StCreateCall(p)
         \/ StCreate(p)
         \/ StInvalidateCall(p)
         \/ StInvalidate(p)
         \/ StConflictCall(p)
         \/ StConflict(p)

SpecConflict == InitConflict /\ [][NextConflict]_vars

\* expiry: every function of the adapter on the sessions of one user on one
\* device, and rows that expire
InitExpiry == StoreStart(MaxRows, MaxTicks, {"a@x.io"}, {UA_ChromeMac})

NextExpiry ==
    \/ StWeek
    \/ StReturn
    \/ \E p \in Procs :
         \/ StCreateCall(p)
         \/ StCreate(p)
         \/ StInvalidateCall(p)
         \/ StInvalidate(p)
         \/ StInvalidateOthersCall(p)
         \/ StInvalidateOthers(p)
         \/ StValidateCall(p)
         \/ StValidate(p)
         \/ StTouchCall(p)
         \/ StTouch(p)
         \/ StConflictCall(p)
         \/ StConflict(p)

SpecExpiry == InitExpiry /\ [][NextExpiry]_vars

----------------------------------------------------------------------------
(* The users table: rows in insertion order, user_id = position.            *)

NoUser == [user_id |-> 0, email |-> "", password |-> Null,
           is_blocked |-> FALSE, type |-> ""]

\* .single(): data only when the query succeeds and exactly one row matches
Single(rows, fail) ==
    IF fail \/ Cardinality(rows) # 1
    THEN [found |-> FALSE, row |-> NoUser]
    ELSE [found |-> TRUE, row |-> users[CHOOSE i \in rows : TRUE]]

UserByEmail(email, fail) ==
    Single({i \in DOMAIN users : users[i].email = email}, fail)

UserByIdAndEmail(userId, email, fail) ==
    Single({i \in DOMAIN users : users[i].user_id = userId /\ users[i].email = email},
           fail)

----------------------------------------------------------------------------
(* Requests.  rq[p] is the request slot p is serving, with its inputs, its  *)
(* locals and its position; resp is the response the step just taken sent   *)
(* (Idle when it sent none).  at is the clock when the handler made the     *)
(* call it is waiting for: the call carries the timestamps and the time     *)
(* filters computed then, whenever the store comes to perform it.  The      *)
(* fields ok, alone, touched, hadActive, sawActive, afterLogout, wasBlocked, *)
(* ended, upstream and badCookie record what happened, for the properties,  *)
(* and steer nothing.                                                       *)

Idle == [pc |-> "idle", kind |-> "", email |-> "", password |-> "",
         forceLogin |-> FALSE, registrationData |-> FALSE, hasBody |-> TRUE,
         deviceInfo |-> NoHint, token |-> NoToken, user |-> NoUser,
         newUser |-> FALSE, currentTime |-> 0, at |-> 0,
         status |-> 0, error |-> "", valid |-> FALSE, requiresAuth |-> FALSE,
         blocked |-> FALSE, respToken |-> NoToken, cookie |-> "",
         conflict |-> NoConflict, full |-> FALSE, expiresIn |-> 0,
         ok |-> TRUE, alone |-> TRUE, touched |-> {}, hadActive |-> FALSE,
         sawActive |-> FALSE, afterLogout |-> FALSE, wasBlocked |-> FALSE,
         ended |-> FALSE, upstream |-> TRUE, badCookie |-> FALSE]

\* a store call fails or not, while the run has faults left
Faults == IF nfail < scope.faults THEN BOOLEAN ELSE {FALSE}

\* the rows of the table T that are not as they are in S
Diff(S, T) == {i \in DOMAIN T : i \notin DOMAIN S \/ S[i] # T[i]}

\* the account with this email is blocked
Blocked(email) == \E i \in DOMAIN users : users[i].email = email /\ users[i].is_blocked

ActiveRows(S, t) == {i \in DOMAIN S : S[i].is_active /\ S[i].expires_at > t}

\* a new request is served by the first free slot
CanStart(p) ==
    /\ resp = Idle
    /\ p \in scope.procs
    /\ rq[p].pc = "idle"
    /\ \A q \in scope.procs : q < p => rq[q].pc # "idle"

\* a login is taken on while the table has room for the row it will insert
RoomForSession ==
    Len(sessions) + Cardinality({q \in Procs : /\ rq[q].kind \in {"login", "oauth"}
                                               /\ rq[q].pc # "update_user"})
      < scope.rows

\* request p stands at the await named pc, the last response being sent
At(p, pc) == resp = Idle /\ rq[p].pc = pc

\* a request that arrives: the requests in flight are no longer alone
Arrive(p, r, starting) ==
    [q \in Procs |->
       IF q = p
       THEN [r EXCEPT !.touched = rq[p].touched \cup Diff(sessions, sessions'),
                      !.alone = IF starting
                                THEN \A o \in Procs \ {p} : rq[o].pc = "idle"
                                ELSE rq[p].alone]
       ELSE IF starting /\ rq[q].pc # "idle"
            THEN [rq[q] EXCEPT !.alone = FALSE]
            ELSE rq[q]]

\* the handler goes on to its next await, making the call it awaits
Advance(p, r, starting, fail) ==
    /\ rq' = Arrive(p, [r EXCEPT !.at = now], starting)
    /\ nfail' = IF fail THEN nfail + 1 ELSE nfail
    /\ resp' = Idle
    /\ UNCHANGED <<last, scope>>

\* the handler returns its response
Respond(p, r, starting, fail) ==
    /\ rq' = [Arrive(p, r, starting) EXCEPT ![p] = Idle]
    /\ resp' = [Arrive(p, r, starting)[p] EXCEPT !.pc = "done"]
    /\ nfail' = IF fail THEN nfail + 1 ELSE nfail
    /\ UNCHANGED <<last, scope>>

Error(r, status, message) == [r EXCEPT !.status = status, !.error = message]

BLOCKED_MESSAGE == "Your account has been blocked. Please contact the administrator at no-reply@examrevise.co.uk for assistance."

UserAgents == {UA_ChromeMac, UA_SafariIPhone}

----------------------------------------------------------------------------
(* handleLogin up to the conflict check.  Of a request that is turned away  *)
(* only the inputs the handler came to read are told apart.                 *)

LoginCredentials ==
    {<<"a@x.io", TEST_PASSWORD>>, <<" A@X.io", TEST_PASSWORD>>,
     <<"a@x.io", "wrong">>, <<"a@x.io", "">>, <<"", TEST_PASSWORD>>,
     <<"new@x.io", TEST_PASSWORD>>, <<"nobody", TEST_PASSWORD>>}

handleLogin(p) ==
    \E cred \in LoginCredentials, forceLogin \in BOOLEAN, ua \in scope.agents,
       fail \in Faults :
      LET email == cred[1]
          password == cred[2]
          wellFormed == email # "" /\ password # "" /\ EmailFormatOk(email)
          u == UserByEmail(LowerTrim(email), fail)
          accepted == /\ wellFormed /\ u.found /\ ~u.row.is_blocked
                      /\ u.row.password # Null
                      /\ verifyPassword(password, u.row.password)
          r == [Idle EXCEPT !.kind = "login", !.email = email,
                            !.password = password, !.forceLogin = forceLogin,
                            !.ok = ~fail, !.wasBlocked = Blocked(LowerTrim(email))]
      IN  /\ CanStart(p)
          /\ accepted => RoomForSession
          /\ fail => wellFormed
          /\ ~accepted => ~forceLogin /\ ua = UA_ChromeMac
          /\ UNCHANGED <<now, users, sessions, revoked>>
          /\ IF email = "" \/ password = ""
             THEN Respond(p, Error(r, 400, "Email and password are required"), TRUE, fail)
             ELSE IF ~EmailFormatOk(email)
             THEN Respond(p, Error(r, 400, "Invalid email format"), TRUE, fail)
             ELSE IF ~u.found
             THEN Respond(p, Error(r, 401, "Invalid email or password"), TRUE, fail)
             ELSE IF u.row.is_blocked
             THEN Respond(p, Error([r EXCEPT !.user = u.row], 403, BLOCKED_MESSAGE), TRUE, fail)
             ELSE IF u.row.password = Null
             THEN Respond(p, Error([r EXCEPT !.user = u.row], 401,
                                   "This email is registered with Google. Please use \"Continue with Google\" to sign in."), TRUE, fail)
             ELSE IF ~verifyPassword(password, u.row.password)
             THEN Respond(p, Error([r EXCEPT !.user = u.row], 401,
                                   "Invalid email or password"), TRUE, fail)
             ELSE Advance(p, [r EXCEPT !.user = u.row,
                                       !.deviceInfo = extractDeviceInfo(ua, NoHint),
                                       !.pc = IF forceLogin THEN "invalidate"
                                              ELSE "conflict"], TRUE, fail)

----------------------------------------------------------------------------
(* handleOAuthProcess up to the conflict check.  The identity is the email  *)
(* auth.getUser returns for the access token.                               *)

NoAccessToken == ""
InvalidAccessToken == "<invalid>"
Identities == {"a@x.io", "new@x.io", InvalidAccessToken, NoAccessToken}

\* where the login pipeline is entered
Pipeline(forceLogin, isNewRegistration) ==
    IF ~forceLogin /\ ~isNewRegistration THEN "conflict"
    ELSE IF forceLogin THEN "invalidate"
    ELSE "issue"

handleOAuthProcess(p) ==
    \E identity \in scope.identities, forceLogin \in BOOLEAN,
       registrationData \in BOOLEAN, ua \in scope.agents, fail \in Faults :
      LET resolved == identity \notin {InvalidAccessToken, NoAccessToken}
          existingUser == UserByEmail(identity, fail)
          accepted == resolved /\ ~(existingUser.found /\ existingUser.row.is_blocked)
          r == [Idle EXCEPT !.kind = "oauth", !.email = identity,
                            !.forceLogin = forceLogin,
                            !.registrationData = registrationData,
                            !.deviceInfo = extractDeviceInfo(ua, NoHint),
                            !.ok = ~fail, !.wasBlocked = Blocked(identity)]
      IN  /\ CanStart(p)
          /\ accepted => RoomForSession
          /\ fail => resolved
          /\ ~accepted => ~forceLogin /\ ~registrationData /\ ua = UA_ChromeMac
          /\ UNCHANGED <<now, users, sessions, revoked>>
          /\ IF identity = NoAccessToken
             THEN Respond(p, Error(r, 400, "No access token provided"), TRUE, fail)
             ELSE IF identity = InvalidAccessToken
             THEN Respond(p, Error(r, 401, "Invalid access token"), TRUE, fail)
             ELSE IF existingUser.found
             THEN IF existingUser.row.is_blocked
                  THEN Respond(p, Error([r EXCEPT !.user = existingUser.row], 403,
                                        BLOCKED_MESSAGE), TRUE, fail)
                  ELSE Advance(p, [r EXCEPT !.user = existingUser.row,
                                            !.pc = Pipeline(forceLogin, registrationData)],
                               TRUE, fail)
             ELSE Advance(p, [r EXCEPT !.pc = "insert_user"], TRUE, fail)

\* a variant that registers the account with the test password
InsertUserWithPassword(p) ==
    \E fail \in Faults :
      LET r == rq[p]
          newUser == [user_id |-> Len(users) + 1, email |-> r.email,
                      password |-> TEST_HASH, is_blocked |-> FALSE, type |-> "user"]
      IN  /\ At(p, "insert_user")
          /\ UNCHANGED <<now, sessions, revoked>>
          /\ IF fail
             THEN /\ users' = users
                  /\ Respond(p, Error([r EXCEPT !.ok = FALSE], 500,
                                      "Failed to create user account"), FALSE, fail)
             ELSE /\ users' = Append(users, newUser)
                  /\ Advance(p, [r EXCEPT !.user = newUser, !.newUser = TRUE,
                                          !.pc = Pipeline(r.forceLogin, r.registrationData)],
                             FALSE, fail)

InsertUser(p) ==
    \E fail \in Faults :
      LET r == rq[p]
          newUser == [user_id |-> Len(users) + 1, email |-> r.email,
                      password |-> Null, is_blocked |-> FALSE, type |-> "user"]
      IN  /\ At(p, "insert_user")
          /\ UNCHANGED <<now, sessions, revoked>>
          /\ IF fail
             THEN /\ users' = users
                  /\ Respond(p, Error([r EXCEPT !.ok = FALSE], 500,
                                      "Failed to create user account"), FALSE, fail)
             ELSE /\ users' = Append(users, newUser)
                  /\ Advance(p, [r EXCEPT !.user = newUser, !.newUser = TRUE,
                                          !.pc = Pipeline(r.forceLogin, r.registrationData)],
                             FALSE, fail)

----------------------------------------------------------------------------
(* The pipeline both logins share: conflict check or forced invalidation,   *)
(* token issue, session create, response with the session cookie; /login    *)
(* updates the user row between the last two.                               *)

\* a variant that answers 500 when the session query fails
ConflictCheckFailClosed(p) ==
    \E fail \in Faults :
    \E conflictCheck \in checkSessionConflict(sessions, rq[p].user.user_id,
                                              rq[p].deviceInfo, rq[p].at, fail) :
      LET r == rq[p]
          r1 == [r EXCEPT !.ok = r.ok /\ ~fail]
      IN  /\ At(p, "conflict")
          /\ UNCHANGED <<now, users, sessions, revoked>>
          /\ IF fail
             THEN Respond(p, Error(r1, 500, "An internal error occurred. Please try again."),
                          FALSE, fail)
             ELSE IF conflictCheck.hasConflict /\ conflictCheck.shouldPrompt
             THEN Respond(p, [r1 EXCEPT !.status = 409, !.conflict = conflictCheck,
                                        !.full = TRUE], FALSE, fail)
             ELSE Advance(p, [r1 EXCEPT !.conflict = conflictCheck, !.pc = "issue"],
                          FALSE, fail)

\* a variant whose 409 also ends the sessions it lists
ConflictCheckEnding(p) ==
    \E fail \in Faults :
    \E conflictCheck \in checkSessionConflict(sessions, rq[p].user.user_id,
                                              rq[p].deviceInfo, rq[p].at, fail) :
      LET r == rq[p]
          r1 == [r EXCEPT !.ok = r.ok /\ ~fail]
      IN  /\ At(p, "conflict")
          /\ UNCHANGED <<now, users, revoked>>
          /\ IF conflictCheck.hasConflict /\ conflictCheck.shouldPrompt
             THEN /\ sessions' = invalidateOtherSessions(sessions, r.user.user_id,
                                                         NoToken, r.at, FALSE).store
                  /\ Respond(p, [r1 EXCEPT !.status = 409, !.conflict = conflictCheck,
                                           !.full = TRUE], FALSE, fail)
             ELSE /\ sessions' = sessions
                  /\ Advance(p, [r1 EXCEPT !.conflict = conflictCheck, !.pc = "issue"],
                             FALSE, fail)

ConflictCheck(p) ==
    \E fail \in Faults :
    \E conflictCheck \in checkSessionConflict(sessions, rq[p].user.user_id,
                                              rq[p].deviceInfo, rq[p].at, fail) :
      LET r == rq[p]
          r1 == [r EXCEPT !.ok = r.ok /\ ~fail]
      IN  /\ At(p, "conflict")
          /\ UNCHANGED <<now, users, sessions, revoked>>
          /\ IF conflictCheck.hasConflict /\ conflictCheck.shouldPrompt
             THEN Respond(p, [r1 EXCEPT !.status = 409, !.conflict = conflictCheck,
                                        !.full = TRUE], FALSE, fail)
             ELSE Advance(p, [r1 EXCEPT !.conflict = conflictCheck, !.pc = "issue"],
                          FALSE, fail)

\* a variant that reads the user's active rows and ends them one by one
ForceInvalidateRowByRow(p) ==
    LET r == rq[p]
        active == {i \in DOMAIN sessions : /\ sessions[i].user_id = r.user.user_id
                                           /\ sessions[i].is_active}
        first == CHOOSE i \in active : \A j \in active : i <= j
    IN  /\ At(p, "invalidate")
        /\ UNCHANGED <<now, users, revoked>>
        /\ IF active = {}
           THEN /\ sessions' = sessions
                /\ Advance(p, [r EXCEPT !.pc = "issue"], FALSE, FALSE)
           ELSE /\ sessions' = [sessions EXCEPT ![first].is_active = FALSE,
                                                ![first].updated_at = r.at]
                /\ Advance(p, r, FALSE, FALSE)

\* a variant that goes on to issue the token without invalidating
ForceInvalidateSkipped(p) ==
    LET r == rq[p]
    IN  /\ At(p, "invalidate")
        /\ UNCHANGED <<now, users, sessions, revoked>>
        /\ Advance(p, [r EXCEPT !.pc = "issue"], FALSE, FALSE)

ForceInvalidate(p) ==
    \E fail \in Faults :
      LET r == rq[p]
          invalidateResult == invalidateOtherSessions(sessions, r.user.user_id,
                                                      NoToken, r.at, fail)
      IN  /\ At(p, "invalidate")
          /\ sessions' = invalidateResult.store
          /\ UNCHANGED <<now, users, revoked>>
          /\ Advance(p, [r EXCEPT !.ok = r.ok /\ ~fail, !.pc = "issue"], FALSE, fail)

\* a variant that signs the email as the request spelled it
IssueTokenForRequestEmail(p) ==
    LET r == rq[p]
    IN  /\ At(p, "issue")
        /\ UNCHANGED <<now, users, sessions, revoked>>
        /\ Advance(p, [r EXCEPT !.token = createJWT(r.user.user_id, r.email,
                                                    r.user.type, r.at),
                                !.pc = "create"], FALSE, FALSE)

IssueToken(p) ==
    LET r == rq[p]
    IN  /\ At(p, "issue")
        /\ UNCHANGED <<now, users, sessions, revoked>>
        /\ Advance(p, [r EXCEPT !.token = createJWT(r.user.user_id, r.user.email,
                                                    r.user.type, r.at),
                                !.pc = "create"], FALSE, FALSE)

\* a variant that looks for a conflict again in the step that inserts
CreateSessionIfNoConflict(p) ==
    \E fail \in Faults :
    \E conflictCheck \in checkSessionConflict(sessions, rq[p].user.user_id,
                                              rq[p].deviceInfo, rq[p].at, FALSE) :
      LET r == rq[p]
          sessionResult == createSession(sessions, r.user.user_id, r.token,
                                         r.deviceInfo,
                                         IF r.kind = "oauth" THEN "oauth" ELSE "email",
                                         r.at, now, fail)
      IN  /\ At(p, "create")
          /\ UNCHANGED <<now, users, revoked>>
          /\ IF ~r.forceLogin /\ conflictCheck.hasConflict
             THEN /\ sessions' = sessions
                  /\ Respond(p, [r EXCEPT !.status = 409, !.conflict = conflictCheck,
                                          !.full = TRUE], FALSE, fail)
             ELSE /\ sessions' = sessionResult.store
                  /\ IF ~sessionResult.success
                     THEN Respond(p, Error([r EXCEPT !.ok = FALSE], 500,
                                           "Failed to create session. Please try again."),
                                  FALSE, fail)
                     ELSE IF r.kind = "login"
                     THEN Advance(p, [r EXCEPT !.pc = "update_user"], FALSE, fail)
                     ELSE Respond(p, [r EXCEPT !.status = 200, !.respToken = r.token,
                                               !.cookie = "set"], FALSE, fail)

CreateSession(p) ==
    \E fail \in Faults :
      LET r == rq[p]
          sessionResult == createSession(sessions, r.user.user_id, r.token,
                                         r.deviceInfo,
                                         IF r.kind = "oauth" THEN "oauth" ELSE "email",
                                         r.at, now, fail)
      IN  /\ At(p, "create")
          /\ sessions' = sessionResult.store
          /\ UNCHANGED <<now, users, revoked>>
          /\ IF ~sessionResult.success
             THEN Respond(p, Error([r EXCEPT !.ok = FALSE], 500,
                                   "Failed to create session. Please try again."), FALSE, fail)
             ELSE IF r.kind = "login"
             THEN Advance(p, [r EXCEPT !.pc = "update_user"], FALSE, fail)
             ELSE Respond(p, [r EXCEPT !.status = 200, !.respToken = r.token,
                                       !.cookie = "set"], FALSE, fail)

\* /login only: users.update({updated_at}) for the user, awaited before the
\* response.  The users rows of the model carry no updated_at and the handler
\* does not read the result of the update, so the step changes no table;
\* the requests served meanwhile have seen the session row without a response.
UpdateUser(p) ==
    LET r == rq[p]
    IN  /\ At(p, "update_user")
        /\ UNCHANGED <<now, users, sessions, revoked>>
        /\ Respond(p, [r EXCEPT !.status = 200, !.respToken = r.token,
                                !.cookie = "set"], FALSE, FALSE)

----------------------------------------------------------------------------
(* What a client can present: a token of some session row, the same token   *)
(* with a changed signature, or none; in the Authorization header, in the   *)
(* exam_revise_session cookie, or in both; or, without an Authorization     *)
(* header, a Cookie header with a value that is not a valid percent         *)
(* encoding ("exam_revise_session=%").                                      *)

RowTokens == {sessions[i].session_token : i \in DOMAIN sessions}

\* the Cookie header on which decodeURIComponent throws URIError
BadCookie == [NoToken EXCEPT !.sig = "%"]

Presented ==
    {<<h, c>> \in (RowTokens \cup {Tamper(k) : k \in RowTokens} \cup {NoToken})
                    \X (RowTokens \cup {NoToken}) :
        h = NoToken \/ c = NoToken \/ h = Tamper(c)}
      \cup {<<NoToken, BadCookie>>}

\* parseCookies is called when no Bearer token was found, and throws on a
\* malformed value
parseCookies(hc) == IF hc[1] = NoToken /\ hc[2] = BadCookie THEN "URIError" ELSE "cookies"

\* Authorization header first, then the cookie
TokenOf(hc) ==
    IF hc[1] # NoToken THEN hc[1]
    ELSE IF parseCookies(hc) = "URIError" THEN NoToken
    ELSE hc[2]

----------------------------------------------------------------------------
(* handleLogout: body, token, verifyJWT; invalidateSession; auth.signOut;  *)
(* response.  A body that does not parse or a Cookie header parseCookies    *)
(* throws on ends in the outer catch.                                       *)

handleLogout(p) ==
    \E hasBody \in BOOLEAN, hc \in Presented :
      LET sessionToken == TokenOf(hc)
          decoded == verifyJWT(sessionToken, now)
          r == [Idle EXCEPT !.kind = "logout", !.hasBody = hasBody,
                            !.token = sessionToken,
                            !.badCookie = parseCookies(hc) = "URIError",
                            !.hadActive =
                               /\ decoded.ok
                               /\ \E i \in ActiveRows(sessions, now) :
                                    sessions[i].session_token = sessionToken]
      IN  /\ CanStart(p)
          /\ UNCHANGED <<now, users, sessions, revoked>>
          /\ IF ~hasBody \/ parseCookies(hc) = "URIError"
             THEN Respond(p, [r EXCEPT !.status = 200, !.cookie = "cleared",
                                       !.error = "Logout completed (with errors)"], TRUE, FALSE)
             ELSE IF sessionToken # NoToken /\ decoded.ok /\ sessionToken.userId # 0
             THEN Advance(p, [r EXCEPT !.pc = "logout_invalidate"], TRUE, FALSE)
             ELSE Advance(p, [r EXCEPT !.pc = "sign_out"], TRUE, FALSE)

\* a variant that answers 500 when the invalidation fails
LogoutInvalidateOrFail(p) ==
    \E fail \in Faults :
      LET r == rq[p]
          invalidateResult == invalidateSession(sessions, r.token, r.at, fail)
      IN  /\ At(p, "logout_invalidate")
          /\ sessions' = invalidateResult.store
          /\ UNCHANGED <<now, users, revoked>>
          /\ IF invalidateResult.success
             THEN Advance(p, [r EXCEPT !.ok = ~fail, !.ended = TRUE,
                                       !.pc = "sign_out"], FALSE, fail)
             ELSE Respond(p, Error([r EXCEPT !.ok = FALSE], 500,
                                   "Failed to invalidate session"), FALSE, fail)

LogoutInvalidate(p) ==
    \E fail \in Faults :
      LET r == rq[p]
          invalidateResult == invalidateSession(sessions, r.token, r.at, fail)
      IN  /\ At(p, "logout_invalidate")
          /\ sessions' = invalidateResult.store
          /\ UNCHANGED <<now, users, revoked>>
          /\ Advance(p, [r EXCEPT !.ok = ~fail, !.ended = invalidateResult.success,
                                  !.pc = "sign_out"], FALSE, fail)

\* supabaseClient.auth.signOut(), its failure caught and logged, then the
\* response; revoked takes the token of the session this logout ended
SignOut(p) ==
    \E fail \in Faults :
      LET r == rq[p]
      IN  /\ At(p, "sign_out")
          /\ revoked' = IF r.ended THEN revoked \cup {r.token} ELSE revoked
          /\ UNCHANGED <<now, users, sessions>>
          /\ Respond(p, [r EXCEPT !.upstream = ~fail, !.status = 200,
                                  !.cookie = "cleared"], FALSE, fail)

----------------------------------------------------------------------------
(* handleValidate *)

Invalid(r, status, message) ==
    [r EXCEPT !.status = status, !.error = message, !.valid = FALSE,
              !.requiresAuth = TRUE]

\* a session a /logout has ended, answered or not
EndedByLogout(token) ==
    token \in revoked \/ \E q \in Procs : rq[q].pc # "idle" /\ rq[q].ended /\ rq[q].token = token

\* token from the header or the cookie, verifyJWT, and the test of exp against
\* the clock read when verifyJWT has returned; the session query is built
\* then.  A throw of parseCookies ends in the outer catch.
handleValidate(p) ==
    \E hc \in Presented :
      LET token == TokenOf(hc)
          decoded == verifyJWT(token, now)
          currentTime == now
          r == [Idle EXCEPT !.kind = "validate", !.token = token,
                            !.badCookie = parseCookies(hc) = "URIError",
                            !.currentTime = currentTime,
                            !.afterLogout = EndedByLogout(token),
                            !.wasBlocked = Blocked(token.email)]
      IN  /\ CanStart(p)
          /\ UNCHANGED <<now, users, sessions, revoked>>
          /\ IF parseCookies(hc) = "URIError"
             THEN Respond(p, Invalid(r, 500, "Internal server error during validation"),
                          TRUE, FALSE)
             ELSE IF token = NoToken
             THEN Respond(p, Invalid(r, 401, "No authentication token provided"), TRUE, FALSE)
             ELSE IF ~decoded.ok
             THEN Respond(p, Invalid(r, 401, decoded.error), TRUE, FALSE)
             ELSE IF token.exp < currentTime
             THEN Respond(p, Invalid(r, 401, "Token has expired"), TRUE, FALSE)
             ELSE Advance(p, [r EXCEPT !.pc = "validate_session"], TRUE, FALSE)

\* the session lookup, with the expires_at filter of the instant it was built
ValidateSession(p) ==
    \E fail \in Faults :
      LET r == rq[p]
          sessionValidation == validateSession(sessions, r.token, r.at, fail)
          r1 == [r EXCEPT !.ok = ~fail,
                          !.sawActive = \E i \in ActiveRows(sessions, r.at) :
                                          sessions[i].session_token = r.token]
      IN  /\ At(p, "validate_session")
          /\ UNCHANGED <<now, users, sessions, revoked>>
          /\ IF ~sessionValidation.valid
             THEN Respond(p, Invalid(r1, 401, "Session not found or expired"), FALSE, fail)
             ELSE Advance(p, [r1 EXCEPT !.pc = "validate_touch"], FALSE, fail)

\* a variant in which a failed activity update fails the validation
ValidateTouchOrFail(p) ==
    \E fail \in Faults :
      LET r == rq[p]
          activityUpdate == updateSessionActivity(sessions, r.token, r.at, fail)
      IN  /\ At(p, "validate_touch")
          /\ sessions' = activityUpdate.store
          /\ UNCHANGED <<now, users, revoked>>
          /\ IF ~activityUpdate.success
             THEN Respond(p, Invalid([r EXCEPT !.ok = FALSE], 401,
                                     "Session not found or expired"), FALSE, fail)
             ELSE Advance(p, [r EXCEPT !.pc = "validate_user"], FALSE, fail)

ValidateTouch(p) ==
    \E fail \in Faults :
      LET r == rq[p]
          activityUpdate == updateSessionActivity(sessions, r.token, r.at, fail)
      IN  /\ At(p, "validate_touch")
          /\ sessions' = activityUpdate.store
          /\ UNCHANGED <<now, users, revoked>>
          /\ Advance(p, [r EXCEPT !.ok = r.ok /\ ~fail, !.pc = "validate_user"], FALSE, fail)

ValidateUser(p) ==
    \E fail \in Faults :
      LET r == rq[p]
          u == UserByIdAndEmail(r.token.userId, r.token.email, fail)
          r1 == [r EXCEPT !.ok = r.ok /\ ~fail]
      IN  /\ At(p, "validate_user")
          /\ UNCHANGED <<now, users, sessions, revoked>>
          /\ IF ~u.found
             THEN Respond(p, Invalid(r1, 401, "User account not found"), FALSE, fail)
             ELSE IF u.row.is_blocked
             THEN Respond(p, [Invalid(r1, 403, BLOCKED_MESSAGE)
                                EXCEPT !.blocked = TRUE, !.user = u.row], FALSE, fail)
             ELSE Respond(p, [r1 EXCEPT !.status = 200, !.valid = TRUE,
                                        !.user = u.row,
                                        !.expiresIn = r.token.exp - r.currentTime],
                          FALSE, fail)

----------------------------------------------------------------------------
(* handleCheckSession.  full says the response carries activeSessions and   *)
(* currentDevice.                                                           *)

handleCheckSession(p) ==
    \E email \in Emails, ua \in scope.agents, fail \in Faults :
      LET u == UserByEmail(LowerTrim(email), fail)
          r == [Idle EXCEPT !.kind = "check", !.email = email, !.ok = ~fail,
                            !.wasBlocked = Blocked(LowerTrim(email))]
      IN  /\ CanStart(p)
          /\ fail => EmailFormatOk(email)
          /\ ~(u.found /\ ~u.row.is_blocked) => ua = UA_ChromeMac
          /\ UNCHANGED <<now, users, sessions, revoked>>
          /\ IF email = ""
             THEN Respond(p, Error(r, 400, "Email is required"), TRUE, fail)
             ELSE IF ~EmailFormatOk(email)
             THEN Respond(p, Error(r, 400, "Invalid email format"), TRUE, fail)
             ELSE IF ~u.found
             THEN Respond(p, [r EXCEPT !.status = 200,
                                       !.error = "No existing sessions found"], TRUE, fail)
             ELSE IF u.row.is_blocked
             THEN Respond(p, Error([r EXCEPT !.user = u.row], 403, BLOCKED_MESSAGE), TRUE, fail)
             ELSE Advance(p, [r EXCEPT !.user = u.row,
                                       !.deviceInfo = extractDeviceInfo(ua, NoHint),
                                       !.pc = "check_conflict"], TRUE, fail)

\* a variant that ends the sessions it reports
CheckConflictEnding(p) ==
    \E fail \in Faults :
    \E conflictCheck \in checkSessionConflict(sessions, rq[p].user.user_id,
                                              rq[p].deviceInfo, rq[p].at, fail) :
      LET r == rq[p]
      IN  /\ At(p, "check_conflict")
          /\ sessions' = IF conflictCheck.hasConflict
                         THEN invalidateOtherSessions(sessions, r.user.user_id,
                                                      NoToken, r.at, FALSE).store
                         ELSE sessions
          /\ UNCHANGED <<now, users, revoked>>
          /\ Respond(p, [r EXCEPT !.ok = r.ok /\ ~fail, !.status = 200,
                                  !.conflict = conflictCheck, !.full = TRUE], FALSE, fail)

CheckConflict(p) ==
    \E fail \in Faults :
    \E conflictCheck \in checkSessionConflict(sessions, rq[p].user.user_id,
                                              rq[p].deviceInfo, rq[p].at, fail) :
      LET r == rq[p]
      IN  /\ At(p, "check_conflict")
          /\ UNCHANGED <<now, users, sessions, revoked>>
          /\ Respond(p, [r EXCEPT !.ok = r.ok /\ ~fail, !.status = 200,
                                  !.conflict = conflictCheck, !.full = TRUE], FALSE, fail)

----------------------------------------------------------------------------
(* The administrator blocks an account (is_blocked is written outside the   *)
(* function).                                                               *)

BlockUser ==
    /\ resp = Idle
    /\ \E i \in DOMAIN users :
         /\ ~users[i].is_blocked
         /\ users' = [users EXCEPT ![i].is_blocked = TRUE]
    /\ resp' = Idle
    /\ UNCHANGED <<now, sessions, rq, nfail, last, revoked, scope>>

Tick ==
    /\ resp = Idle
    /\ TicksTaken < scope.ticks
    /\ now' = now + HALF_LIFE
    /\ resp' = Idle
    /\ UNCHANGED <<users, sessions, rq, nfail, last, revoked, scope>>

----------------------------------------------------------------------------
(* c.json(...): the response leaves; the next step follows it *)

Sent ==
    /\ resp # Idle
    /\ resp' = Idle
    /\ UNCHANGED <<now, users, sessions, rq, nfail, last, revoked, scope>>

----------------------------------------------------------------------------
(* The function serving requests *)

\* the state after deployment: one registered account, no session
Start ==
    /\ now = 0
    /\ users = <<[user_id |-> 1, email |-> "a@x.io", password |-> TEST_HASH,
                  is_blocked |-> FALSE, type |-> "user"]>>
    /\ sessions = <<>>
    /\ rq = [p \in Procs |-> Idle]
    /\ nfail = 0
    /\ last = NoCall
    /\ resp = Idle
    /\ revoked = {}

Login(p) ==
    \/ handleLogin(p)
    \/ handleOAuthProcess(p)
    \/ InsertUser(p)
    \/ ConflictCheck(p)
    \/ ForceInvalidate(p)
    \/ IssueToken(p)
    \/ CreateSession(p)
    \/ UpdateUser(p)

Init ==
    /\ Start
    /\ scope = [rows |-> MaxRows, ticks |-> 1, faults |-> MaxFaults,
                agents |-> {UA_ChromeMac}, identities |-> Identities,
                procs |-> {1}]

Next ==
    \/ Tick
    \/ BlockUser
    \/ Sent
    \/ \E p \in Procs :
         \/ Login(p)
         \/ handleLogout(p)
         \/ LogoutInvalidate(p)
         \/ SignOut(p)
         \/ handleValidate(p)
         \/ ValidateSession(p)
         \/ ValidateTouch(p)
         \/ ValidateUser(p)
         \/ handleCheckSession(p)
         \/ CheckConflict(p)

Spec == Init /\ [][Next]_vars

----------------------------------------------------------------------------
(* Login, logout and validation of the sessions, for as long as a token     *)
(* lives                                                                    *)

InitSession ==
    /\ Start
    /\ scope = [rows |-> MaxRows, ticks |-> MaxTicks, faults |-> MaxFaults,
                agents |-> {UA_ChromeMac}, identities |-> Identities,
                procs |-> {1}]

NextSession ==
    \/ Tick
    \/ Sent
    \/ \E p \in Procs :
         \/ Login(p)
         \/ handleLogout(p)
         \/ LogoutInvalidate(p)
         \/ SignOut(p)
         \/ handleValidate(p)
         \/ ValidateSession(p)
         \/ ValidateTouch(p)
         \/ ValidateUser(p)

SpecSession == InitSession /\ [][NextSession]_vars

----------------------------------------------------------------------------
(* The two logins alone, from every device *)

InitLogin ==
    /\ Start
    /\ scope = [rows |-> LoginRows, ticks |-> 1, faults |-> MaxFaults,
                agents |-> UserAgents,
                identities |-> Identities, procs |-> {1}]

NextLogin ==
    \/ Tick
    \/ Sent
    \/ \E p \in Procs : Login(p)

SpecLogin == InitLogin /\ [][NextLogin]_vars

----------------------------------------------------------------------------
(* The two logins and /check-session, from every device *)

InitCheck ==
    /\ Start
    /\ scope = [rows |-> MaxRows, ticks |-> MaxTicks, faults |-> MaxFaults,
                agents |-> UserAgents,
                identities |-> {"a@x.io", "new@x.io"}, procs |-> {1}]

NextCheck ==
    \/ Tick
    \/ Sent
    \/ \E p \in Procs :
         \/ Login(p)
         \/ handleCheckSession(p)
         \/ CheckConflict(p)

SpecCheck == InitCheck /\ [][NextCheck]_vars

----------------------------------------------------------------------------
(* Two logins served side by side, from every device, for the registered    *)
(* account and for an identity not yet registered, the store never failing  *)
(* and the clock standing still                                              *)

InitRace ==
    /\ Start
    /\ scope = [rows |-> LoginRows, ticks |-> 0, faults |-> 0,
                agents |-> UserAgents,
                identities |-> {"a@x.io", "new@x.io"}, procs |-> Procs]

NextRace ==
    \/ Sent
    \/ \E p \in Procs : Login(p)

SpecRace == InitRace /\ [][NextRace]_vars

----------------------------------------------------------------------------
(* Logins and logouts served side by side, the store never failing          *)

InitRaceOut ==
    /\ Start
    /\ scope = [rows |-> MaxRows, ticks |-> 0, faults |-> 0,
                agents |-> UserAgents,
                identities |-> {"a@x.io", "new@x.io"}, procs |-> Procs]

NextRaceOut ==
    \/ Sent
    \/ \E p \in Procs :
         \/ Login(p)
         \/ handleLogout(p)
         \/ LogoutInvalidate(p)
         \/ SignOut(p)

SpecRaceOut == InitRaceOut /\ [][NextRaceOut]_vars

----------------------------------------------------------------------------
(* One session, validated and logged out by requests served side by side,  *)
(* the store never failing                                                  *)

InitRevoke ==
    /\ Start
    /\ scope = [rows |-> 1, ticks |-> 1, faults |-> 0,
                agents |-> {UA_ChromeMac},
                identities |-> {"a@x.io", "new@x.io"}, procs |-> Procs]

NextRevoke ==
    \/ Tick
    \/ Sent
    \/ \E p \in Procs :
         \/ Login(p)
         \/ handleLogout(p)
         \/ LogoutInvalidate(p)
         \/ SignOut(p)
         \/ handleValidate(p)
         \/ ValidateSession(p)
         \/ ValidateTouch(p)
         \/ ValidateUser(p)

SpecRevoke == InitRevoke /\ [][NextRevoke]_vars

----------------------------------------------------------------------------
(* extractDeviceInfo called directly on every user agent: resp is the       *)
(* User-Agent header of the request, a set of markers or NoUA, and last the *)
(* call made on it.                                                         *)

Markers == {"Chrome", "Firefox", "Safari", "Edge", "Opera", "Windows", "Mac",
            "Linux", "Android", "iPhone", "iPad", "Mobile"}

\* what the client sends as deviceInfo: nothing, or a browser name of its own
Hints == {NoHint, [browser |-> "Brave", os |-> "", device |-> ""]}

InitDevice ==
    /\ now = 0
    /\ users = <<>>
    /\ sessions = <<>>
    /\ rq = [p \in Procs |-> 0]
    /\ nfail = 0
    /\ last = NoCall
    /\ resp \in SUBSET Markers \cup {NoUA}
    /\ revoked = {}
    /\ scope = [rows |-> 0, ticks |-> 0, faults |-> 0,
                agents |-> {}, identities |-> {}, procs |-> {}]

Extract ==
    \E hint \in Hints :
        /\ last = NoCall
        /\ last' = [NoCall EXCEPT !.op = "extractDeviceInfo",
                                  !.device = extractDeviceInfo(resp, hint),
                                  !.outcome = hint.browser]
        /\ UNCHANGED <<now, users, sessions, rq, nfail, resp, revoked, scope>>

SpecDevice == InitDevice /\ [][Extract]_vars

----------------------------------------------------------------------------
(* Properties of the adapter (SpecStore, SpecConflict, SpecExpiry).  In a   *)
(* state in which a call returns, last is that call, last.pre the table the *)
(* store found and sessions the table it left; last.t is the clock the      *)
(* function read when it was called, last.at the clock when the store       *)
(* performed the query.                                                     *)

\* the active, unexpired sessions of user u in table S at time t
ActiveOf(S, u, t) ==
    {i \in DOMAIN S : S[i].user_id = u /\ S[i].is_active /\ S[i].expires_at > t}

\* those of them stored with a triplet other than d
OnOtherDevice(S, u, t, d) ==
    {i \in ActiveOf(S, u, t) :
        \/ S[i].device_info.browser # d.browser
        \/ S[i].device_info.os # d.os
        \/ S[i].device_info.device # d.device}

\* the conflict rule for the call that returns, the active sessions being
\* those that are is_active and expire after the instant t
ConflictRuleAt(t) ==
    (last.op = "checkSessionConflict" /\ ~last.fail) =>
        LET other == OnOtherDevice(last.pre, last.userId, t, last.device)
            c == last.conflict
        IN  /\ c.hasConflict = (other # {})
            /\ c.shouldPrompt = c.hasConflict
            /\ (c.message # -1) = c.hasConflict
            /\ c.hasConflict => c.message = Cardinality(other)
            /\ (ActiveOf(last.pre, last.userId, t) # {} /\ other = {})
                 => ~c.hasConflict

\* C3 as stated: when the session query succeeds, checkSessionConflict
\* reports hasConflict exactly when some session of the user that is active
\* (is_active, expires_at after now) as the store answers is stored with a
\* triplet that differs from the candidate's in a field; shouldPrompt equals
\* hasConflict; the message is present exactly when hasConflict is and counts
\* the different-device sessions; sessions on the candidate's own triplet
\* alone give no conflict.
C3_ActiveAsAnswered == ConflictRuleAt(last.at)

\* C3: when the session query succeeds, checkSessionConflict reports
\* hasConflict exactly when some session of the user that is is_active and
\* expires after the instant checkSessionConflict was called is stored with
\* a triplet that differs from the candidate's in a field; shouldPrompt
\* equals hasConflict; the message is present exactly when hasConflict is
\* and counts the different-device sessions; sessions on the candidate's own
\* triplet alone give no conflict.
C3_ConflictRule == ConflictRuleAt(last.t)

\* a conflict check that found one session on the candidate's device and one
\* on another, the store answering later than the function was called
C3_Witness ==
    /\ last.op = "checkSessionConflict"
    /\ ~last.fail
    /\ last.at > last.t
    /\ last.conflict.hasConflict
    /\ last.conflict.message = 1
    /\ Cardinality(ActiveOf(last.pre, last.userId, last.t)) = 2

\* C6: a successful invalidateOtherSessions(userId, exceptToken) leaves every
\* session with the excepted token as it was, sets is_active = false on every
\* other active session of that user, and changes no session of another user.
C6_InvalidateOthers ==
    (last.op = "invalidateOtherSessions" /\ last.success) =>
        /\ DOMAIN sessions = DOMAIN last.pre
        /\ \A i \in DOMAIN last.pre :
             LET old == last.pre[i]
             IN  IF old.user_id = last.userId /\ old.is_active
                    /\ ~(last.token # NoToken /\ old.session_token = last.token)
                 THEN ~sessions[i].is_active
                 ELSE sessions[i] = old
        /\ last.count = Cardinality({i \in DOMAIN last.pre :
                                       last.pre[i].is_active /\ ~sessions[i].is_active})

\* an invalidation that spared the excepted session and ended another one
C6_Witness ==
    /\ last.op = "invalidateOtherSessions"
    /\ last.success
    /\ last.token # NoToken
    /\ \E i, j \in DOMAIN last.pre :
         /\ last.pre[i].user_id = last.userId
         /\ last.pre[j].user_id = last.userId
         /\ last.pre[i].session_token = last.token
         /\ last.pre[i].is_active /\ sessions[i].is_active
         /\ last.pre[j].is_active /\ ~sessions[j].is_active

\* the rows of S that are active
IsActive(S) == {i \in DOMAIN S : S[i].is_active}

\* the call just made met no active row with its token
NothingToEnd ==
    ~\E i \in DOMAIN last.pre :
        last.pre[i].session_token = last.token /\ last.pre[i].is_active

C7_NoError ==
    (last.op = "invalidateSession" /\ ~last.fail) =>
        /\ last.success
        /\ NothingToEnd => IsActive(sessions) = IsActive(last.pre)

\* in this step the store performs an invalidation of the token whose
\* invalidation was the last write to the table
InvalidatedAgain ==
    /\ resp.op = "invalidateSession"
    /\ last'.op = "invalidateSession" /\ last'.success
    /\ last'.token = resp.token
    /\ last'.pre = sessions

\* C7 as the specification states it: invalidating an inactive or unknown
\* token succeeds and leaves the active sessions as they were, and a second
\* invalidation of a token leaves the table exactly as the first one left it.
C7_SameStoreState ==
    []C7_NoError /\ [][InvalidatedAgain => sessions' = sessions]_vars

\* C7: invalidating an inactive or unknown token succeeds and leaves the
\* active sessions as they were, and a second invalidation of a token leaves
\* the table as the first one left it except for the updated_at of the rows
\* with that token.
C7_Idempotent ==
    /\ []C7_NoError
    /\ [][InvalidatedAgain =>
            /\ DOMAIN sessions' = DOMAIN sessions
            /\ \A i \in DOMAIN sessions :
                 IF sessions[i].session_token = resp.token
                 THEN sessions'[i] = [sessions[i] EXCEPT
                                        !.updated_at = sessions'[i].updated_at]
                 ELSE sessions'[i] = sessions[i]]_vars

\* an invalidation of an inactive session, later than the one that ended it
C7_Witness ==
    /\ last.op = "invalidateSession"
    /\ last.success
    /\ NothingToEnd
    /\ \E i \in DOMAIN last.pre :
         /\ last.pre[i].session_token = last.token
         /\ sessions[i].updated_at > last.pre[i].updated_at

----------------------------------------------------------------------------
(* Properties of the two logins (SpecLogin).  In the state after a handler  *)
(* returns, resp is the request with its response: its inputs, what it      *)
(* returned, and the session rows it changed or created (touched).          *)

\* C1: when a /login with forceLogin = true returns 200, no other request
\* was in flight with it and every store call of it succeeded, the user has
\* exactly one active, unexpired session, and its token is the token of the
\* response, whatever sessions the user had before.
C1_ForcedLoginLeavesOne ==
    (resp.kind = "login" /\ resp.forceLogin /\ resp.status = 200
       /\ resp.alone /\ resp.ok) =>
        LET active == ActiveOf(sessions, resp.user.user_id, now)
        IN  /\ Cardinality(active) = 1
            /\ \A i \in active : sessions[i].session_token = resp.respToken

\* a forced login that ended two sessions, held on different devices, and
\* created the third
C1_Witness ==
    /\ resp.kind = "login" /\ resp.forceLogin /\ resp.status = 200
    /\ resp.alone /\ resp.ok
    /\ resp.touched = {1, 2, 3}
    /\ sessions[1].device_info # sessions[2].device_info
    /\ ~sessions[1].is_active /\ ~sessions[2].is_active

\* C2: a /login or /oauth-process without forceLogin whose conflict check
\* reports a conflict returns 409, and a 409 is returned with no token
\* issued, no session row created or changed and no session cookie set.
C2_ConflictHalts ==
    /\ (resp.kind \in {"login", "oauth"} /\ ~resp.forceLogin
          /\ resp.conflict.hasConflict) => resp.status = 409
    /\ resp.status = 409 =>
         /\ resp.kind \in {"login", "oauth"}
         /\ ~resp.forceLogin
         /\ resp.token = NoToken
         /\ resp.respToken = NoToken
         /\ resp.cookie = ""
         /\ resp.touched = {}

\* an OAuth login turned away with 409 for a session on another device
C2_Witness ==
    /\ resp.kind = "oauth"
    /\ resp.status = 409
    /\ resp.conflict.message = 1
    /\ ActiveOf(sessions, resp.user.user_id, now) # {}

\* C9: no two session rows hold the same session_token.
C9_TokensUnique ==
    \A i, j \in DOMAIN sessions :
        sessions[i].session_token = sessions[j].session_token => i = j

----------------------------------------------------------------------------
(* Properties of the function as a whole (Spec) *)

\* C4: /validate answers valid:true only if, at its session lookup, a row
\* with the presented token was active and unexpired; and once /logout has
\* invalidated the session of a token, every later /validate with that
\* token, its signature intact, answers valid:false with requiresAuth:true.
C4_StoreAuthoritative ==
    resp.kind = "validate" =>
        /\ resp.valid => resp.sawActive
        /\ (resp.afterLogout /\ resp.token.sig = "ok")
             => (~resp.valid /\ resp.requiresAuth)

\* the request is from a blocked user, is well formed, and every store call
\* it made succeeded
FromBlocked(kind) == resp.kind = kind /\ resp.wasBlocked /\ resp.ok

\* C5: a blocked user gets 403 on /login whatever password is submitted,
\* on /oauth-process and on /check-session, and 403 rather than 401 on
\* /validate with a token whose session was active at the session lookup;
\* no step of a request of a blocked user adds a session row (the store
\* calls of the request succeeding).
C5_Blocked403 ==
    /\ [](/\ (FromBlocked("login") /\ resp.password # "") => resp.status = 403
          /\ FromBlocked("oauth") => resp.status = 403
          /\ FromBlocked("check") => resp.status = 403
          /\ (FromBlocked("validate") /\ resp.sawActive
                /\ resp.token.exp >= resp.currentTime) => resp.status = 403)
    /\ [][(\E p \in Procs : rq[p].pc # "idle" /\ rq[p].wasBlocked /\ rq[p].ok)
            => Len(sessions') = Len(sessions)]_vars

\* the message /validate gives for a token whose signature does not verify
TamperedMessage == verifyJWT(Tamper(resp.token), now).error

\* C8: on /validate a token made by createJWT is accepted by the token
\* verification at every instant before its TTL has elapsed, and once the
\* TTL has elapsed it is refused with 401 and a message other than the one
\* a tampered token gets.  resp.currentTime is the instant of the
\* verification.
C8_ExpiredDistinct ==
    (resp.kind = "validate" /\ resp.token.sig = "ok") =>
        IF resp.token.exp > resp.currentTime
        THEN resp.error # TamperedMessage
        ELSE resp.status = 401 /\ resp.error # TamperedMessage

\* C10: a /logout, with or without a JSON body, that carries the unexpired
\* token of an active session leaves no row with that token active once the
\* response is sent, provided the store update succeeds.
C10_LogoutInvalidates ==
    (resp.kind = "logout" /\ resp.hadActive /\ resp.ok) =>
        \A i \in DOMAIN sessions :
            sessions[i].session_token = resp.token => ~sessions[i].is_active

\* C11: every /logout answers 200 (success) and clears the session cookies,
\* whatever came before: no token, a token that does not verify, a body that
\* does not parse, an invalidation the store refused or a sign-out that
\* failed upstream.
C11_LogoutNeverFails ==
    resp.kind = "logout" => (resp.status = 200 /\ resp.cookie = "cleared")

\* a logout whose invalidateSession call failed
C11_Witness ==
    /\ resp.kind = "logout"
    /\ resp.hadActive
    /\ ~resp.ok
    /\ resp.status = 200

\* a logout whose upstream sign-out failed, after the invalidation of an
\* active session
C11_SignOutFailed ==
    /\ resp.kind = "logout"
    /\ resp.hadActive
    /\ resp.ended
    /\ ~resp.upstream
    /\ resp.status = 200

\* C12: a /validate that is refused answers 401 with valid:false and
\* requiresAuth:true when no token is given, the token does not verify, no
\* active unexpired session row is found or the user row is not found, and
\* 403 when the user is blocked; none of these answers 500.
C12_ValidateRefusals ==
    resp.kind = "validate" =>
        /\ resp.status \in {200, 401, 403}
        /\ resp.status = 200 <=> resp.valid
        /\ resp.status # 200 => (~resp.valid /\ resp.requiresAuth)
        /\ resp.status = 403 <=> resp.blocked
        /\ resp.token.sig # "ok" => resp.status = 401
        /\ resp.error \in {"No authentication token provided",
                           "Invalid or expired token", "Token has expired",
                           "Session not found or expired",
                           "User account not found"} => resp.status = 401

----------------------------------------------------------------------------
(* Further properties of the two logins (SpecLogin) *)

\* the token a /login returns with 200 verifies from the instant it is issued
\* until its TTL has elapsed and carries the id and the email of the user row
\* the submitted email names
TokenOfTheUser ==
    (resp.kind = "login" /\ resp.status = 200) =>
        LET token == resp.respToken
        IN  /\ \A t \in {token.iat, token.iat + HALF_LIFE, now} :
                 t < token.exp => verifyJWT(token, t).ok
            /\ token.exp = token.iat + SEVEN_DAYS
            /\ ~resp.user.is_blocked
            /\ resp.user.email = LowerTrim(resp.email)
            /\ token.userId = resp.user.user_id
            /\ token.email = resp.user.email

\* C13 as stated: a /login that returns 200 returns a token that verifies
\* and carries the user's id and email, and a session row with that token
\* and that user_id is active when the response is sent.
C13_RowActiveAtResponse ==
    /\ TokenOfTheUser
    /\ (resp.kind = "login" /\ resp.status = 200) =>
         \E i \in ActiveOf(sessions, resp.user.user_id, now) :
             sessions[i].session_token = resp.respToken

\* the step in which request p inserts its session row
InsertStep(p) ==
    /\ rq[p].pc = "create"
    /\ rq'[p].pc # "create"
    /\ Len(sessions') = Len(sessions) + 1

\* in this step the invalidateOtherSessions of a forced login of user u is
\* performed
ForcedOut(u) ==
    \E p \in Procs : /\ rq[p].pc = "invalidate"
                     /\ rq'[p].pc = "issue"
                     /\ rq[p].user.user_id = u

\* in this step the invalidateSession of a /logout that presented token is
\* performed
LoggedOut(token) ==
    \E p \in Procs : /\ rq[p].pc = "logout_invalidate"
                     /\ rq'[p].pc = "sign_out"
                     /\ rq[p].token = token

\* the row a login inserts is active and holds its token and its user, and a
\* row is ended only by the invalidation of a forced login of its user or of
\* a logout that presents its token
ActiveUntilForcedOut ==
    /\ \A p \in Procs :
         InsertStep(p) =>
             LET s == sessions'[Len(sessions')]
             IN  /\ s.is_active
                 /\ s.session_token = rq[p].token
                 /\ s.user_id = rq[p].user.user_id
    /\ \A i \in DOMAIN sessions :
         (sessions[i].is_active /\ ~sessions'[i].is_active) =>
             \/ ForcedOut(sessions[i].user_id)
             \/ LoggedOut(sessions[i].session_token)

\* C13: a /login that returns 200 returns a token that verifies from the
\* instant it is issued until its TTL has elapsed, whose payload carries the
\* id and the email of the user row the submitted email names; a session row
\* with that token and that user_id exists when the response is sent; it was
\* inserted active, and it is active when the response is sent unless a
\* forced login of the same user or a logout that presented the same token,
\* served at the same time, has ended it.
C13_TokenIdentifiesUser ==
    /\ []TokenOfTheUser
    /\ []((resp.kind = "login" /\ resp.status = 200) =>
            \E i \in DOMAIN sessions :
                /\ sessions[i].session_token = resp.respToken
                /\ sessions[i].user_id = resp.user.user_id
                /\ resp.alone => sessions[i].is_active)
    /\ [][ActiveUntilForcedOut]_vars

\* a login, the email in another spelling than the stored one, that answers
\* 200 after a logout served beside it, presenting the same token, has ended
\* its session
C13_Witness ==
    /\ resp.kind = "login"
    /\ resp.status = 200
    /\ resp.email # resp.user.email
    /\ resp.respToken.email = resp.user.email
    /\ ~resp.alone
    /\ EndedByLogout(resp.respToken)
    /\ \A i \in DOMAIN sessions :
         sessions[i].session_token = resp.respToken => ~sessions[i].is_active

\* a login that answers 200 after a forced login served beside it has ended
\* its session, no logout having presented its token
C13_ForcedOut ==
    /\ resp.kind = "login"
    /\ resp.status = 200
    /\ ~resp.alone
    /\ ~EndedByLogout(resp.respToken)
    /\ \A i \in DOMAIN sessions :
         sessions[i].session_token = resp.respToken => ~sessions[i].is_active

\* C14 as stated: for every session row created by /login or
\* /oauth-process, the token expires 7 days after it was issued, the row
\* expires 7 days after its creation instant (created_at), and the row does
\* not expire before its token.
C14_FromCreatedAt ==
    \A i \in DOMAIN sessions :
        LET s == sessions[i]
            token == s.session_token
        IN  /\ token.exp = token.iat + SEVEN_DAYS
            /\ s.expires_at = s.created_at + SEVEN_DAYS
            /\ s.expires_at >= token.exp
            /\ token.exp > now => s.expires_at > now

\* the row request p inserts expires 7 days after the instant createSession
\* was called, and the store creates it at that instant or later
ExpiresFromTheCall ==
    \A p \in Procs :
        (rq[p].pc = "create" /\ Len(sessions') = Len(sessions) + 1) =>
            LET s == sessions'[Len(sessions')]
            IN  /\ s.expires_at = rq[p].at + SEVEN_DAYS
                /\ s.last_activity = rq[p].at
                /\ s.created_at = now
                /\ s.created_at >= rq[p].at
                /\ s.session_token.iat <= rq[p].at

\* C14: for every session row created by /login or /oauth-process, the
\* token expires 7 days after it was issued, the row expires 7 days after
\* the instant createSession was called, which is not later than the
\* created_at the store gives it, and the row does not expire before its
\* token: while the token is unexpired the row's expires_at is in the future.
C14_OneTTL ==
    /\ [](\A i \in DOMAIN sessions :
            LET s == sessions[i]
                token == s.session_token
            IN  /\ token.exp = token.iat + SEVEN_DAYS
                /\ s.expires_at <= s.created_at + SEVEN_DAYS
                /\ s.expires_at >= token.exp
                /\ token.exp > now => s.expires_at > now)
    /\ [][ExpiresFromTheCall]_vars

\* a row the store created later than createSession was called, the token
\* still unexpired
C14_Witness ==
    \E i \in DOMAIN sessions :
        /\ sessions[i].created_at + SEVEN_DAYS > sessions[i].expires_at
        /\ sessions[i].expires_at >= sessions[i].session_token.exp
        /\ sessions[i].session_token.exp > now
        /\ sessions[i].login_method \in {"email", "oauth"}

\* C15: an /oauth-process request without forceLogin for a user that existed
\* before the request runs conflict detection: when its store calls succeed
\* it does not return 200 while the user has an active session stored with
\* another device triplet; only a request that created the user row goes
\* straight to the token.
C15_ExistingUserChecked ==
    (resp.kind = "oauth" /\ resp.status = 200 /\ ~resp.forceLogin
       /\ ~resp.newUser /\ resp.ok) =>
        OnOtherDevice(sessions, resp.user.user_id, now, resp.deviceInfo) = {}

----------------------------------------------------------------------------
(* Further properties of the function as a whole (Spec) *)

\* the user rows /oauth-process inserted: all but the one of the deployment
CreatedByOAuth == {i \in DOMAIN users : i > 1}

\* the email names a row /oauth-process inserted
OAuthOnly(email) == \E i \in CreatedByOAuth : users[i].email = email

\* a password login for an account /oauth-process created
LoginOfOAuthOnly ==
    /\ resp.kind = "login"
    /\ EmailFormatOk(resp.email)
    /\ OAuthOnly(LowerTrim(resp.email))

\* the request left without a token, a session or a cookie
NothingIssued ==
    /\ resp.token = NoToken
    /\ resp.respToken = NoToken
    /\ resp.cookie = ""
    /\ resp.touched = {}

\* C16 as stated: every /login for a user /oauth-process created returns 401
\* and issues no token and creates no session.
C16_Always401 ==
    LoginOfOAuthOnly => (resp.status = 401 /\ NothingIssued)

\* C16: a user row created by /oauth-process has password = null, and a
\* /login for such a user never issues a token or creates a session; it
\* returns 401, except 403 when the user is blocked and 400 when the
\* submitted password is empty.
C16_OAuthOnlyNoPasswordLogin ==
    /\ \A i \in CreatedByOAuth : users[i].password = Null
    /\ LoginOfOAuthOnly =>
         /\ NothingIssued
         /\ resp.status \in {400, 401, 403}
         /\ resp.status = 403 => resp.wasBlocked
         /\ resp.status = 400 => resp.password = ""

\* the only password verifyPassword accepts, submitted for a Google account
C16_Witness ==
    /\ LoginOfOAuthOnly
    /\ resp.email = "new@x.io"
    /\ resp.password = TEST_PASSWORD
    /\ resp.status = 401
    /\ resp.user.password = Null

\* what a /check-session response shows its reader: status, message, the
\* verdict, and whether it carries activeSessions and currentDevice
Visible(r) ==
    <<r.status, r.error, r.conflict.hasConflict, r.conflict.shouldPrompt,
      r.conflict.message, r.full>>

\* the answer for an email with no user row
UnknownEmailAnswer ==
    <<200, "No existing sessions found", FALSE, FALSE, -1, FALSE>>

\* C17: the /check-session response for an existing non-blocked user with no
\* active session has the same status, fields and values as the response for
\* an email with no user row.
C17_EmailNotRevealed ==
    (resp.kind = "check" /\ resp.user # NoUser /\ ~resp.user.is_blocked
       /\ resp.ok /\ ActiveOf(sessions, resp.user.user_id, now) = {}) =>
        Visible(resp) = UnknownEmailAnswer

\* the answer for an email with no user row is the one compared against
C17_UnknownSeen ==
    /\ resp.kind = "check"
    /\ resp.email = "new@x.io"
    /\ ~OAuthOnly("new@x.io")
    /\ Visible(resp) = UnknownEmailAnswer

\* the store failed on createSession and the handler answered
CreateFailed ==
    /\ resp.kind \in {"login", "oauth"}
    /\ resp.error = "Failed to create session. Please try again."

\* C18: when the store fails on createSession during /login or
\* /oauth-process, the request returns 500, returns no token, sets no session
\* cookie, and no session row holds the token it issued.
C18_CreateFailureFatal ==
    CreateFailed =>
        /\ resp.status = 500
        /\ resp.respToken = NoToken
        /\ resp.cookie = ""
        /\ ~\E i \in DOMAIN sessions : sessions[i].session_token = resp.token

\* what of it holds whatever other rows there are: the step that answers
\* answers 500 without token or cookie and leaves the table as it was
C18_NothingOfItsOwn ==
    [][CreateFailed' =>
         /\ resp'.status = 500
         /\ resp'.respToken = NoToken
         /\ resp'.cookie = ""
         /\ sessions' = sessions]_vars

\* what the handler itself holds of a request: its inputs and locals, without
\* its position, the instant of its next call and the record of what the
\* store did
Locals(r) == [r EXCEPT !.pc = "", !.at = 0, !.ok = TRUE, !.touched = {}]

\* the step after updateSessionActivity or after the forced
\* invalidateOtherSessions: the handler goes on, no response is sent, and
\* nothing it holds depends on what the store reported
SidePathStep(p) ==
    (rq[p].pc \in {"validate_touch", "invalidate"} /\ rq'[p] # rq[p]) =>
        /\ resp' = Idle
        /\ rq'[p].pc = IF rq[p].pc = "validate_touch" THEN "validate_user" ELSE "issue"
        /\ Locals(rq'[p]) = Locals(rq[p])

\* C19: a store failure in updateSessionActivity does not change the
\* /validate result, and a store failure in invalidateOtherSessions does not
\* stop a forced login: after either call the handler continues exactly as
\* after a success, and a forced login whose token was issued fails only
\* when createSession fails.
C19_SidePathsSwallowed ==
    /\ [][\A p \in Procs : SidePathStep(p)]_vars
    /\ [](/\ (resp.kind \in {"login", "oauth"} /\ resp.forceLogin
                /\ resp.token # NoToken /\ ~CreateFailed) =>
               /\ resp.status = 200
               /\ resp.respToken = resp.token
               /\ \E i \in DOMAIN sessions : sessions[i].session_token = resp.token
          /\ (resp.kind = "validate" /\ resp.user # NoUser /\ ~resp.user.is_blocked) =>
               (resp.status = 200 /\ resp.valid))

\* a /validate that answers valid although its one store failure was the
\* activity update
C19_Witness ==
    /\ resp.kind = "validate"
    /\ resp.status = 200
    /\ resp.valid
    /\ ~resp.ok
    /\ \E i \in DOMAIN sessions :
         sessions[i].session_token = resp.token /\ sessions[i].last_activity < now

\* a forced password login that answers 200 although its one store failure
\* was invalidateOtherSessions: the older session is still active
C19_ForcedWitness ==
    /\ resp.kind = "login"
    /\ resp.forceLogin
    /\ resp.status = 200
    /\ ~resp.ok
    /\ Cardinality(ActiveOf(sessions, resp.user.user_id, now)) = 2

----------------------------------------------------------------------------
(* Properties of the conflict check (SpecCheck) *)

\* a step of a /check-session request, or the conflict check of a login
ReadOnlyStep(p) ==
    (/\ rq'[p] # rq[p]
     /\ rq[p].kind = "check" \/ rq'[p].kind = "check" \/ rq[p].pc = "conflict") =>
        /\ sessions' = sessions
        /\ users' = users

\* C20: the conflict check of a login and every step of a /check-session
\* request leave every session row and every user row unchanged, and a /login
\* or /oauth-process with forceLogin = true never runs the conflict check and
\* never returns 409, whatever active sessions exist.
C20_ConflictCheckAdvisory ==
    /\ [][\A p \in Procs : ReadOnlyStep(p)]_vars
    /\ [](/\ resp.kind = "check" => resp.touched = {}
          /\ (resp.kind \in {"login", "oauth"} /\ resp.forceLogin) =>
               (resp.status # 409 /\ resp.conflict = NoConflict))

\* a /check-session that reports a conflict and leaves the session it
\* reports active
C20_Witness ==
    /\ resp.kind = "check"
    /\ resp.status = 200
    /\ resp.conflict.hasConflict
    /\ OnOtherDevice(sessions, resp.user.user_id, now, resp.deviceInfo) # {}

\* a forced login that answers 200 from another device than the session it
\* found
C20_ForcedWitness ==
    /\ resp.kind \in {"login", "oauth"}
    /\ resp.forceLogin
    /\ resp.status = 200
    /\ \E i \in DOMAIN sessions :
         /\ sessions[i].user_id = resp.user.user_id
         /\ sessions[i].device_info # resp.deviceInfo
         /\ sessions[i].created_at <= resp.token.iat
         /\ sessions[i].session_token # resp.token

----------------------------------------------------------------------------
(* Order of effects, expiry and reactivation (Spec) *)

\* C21: a /validate request that ends with 401 or 403 leaves every session
\* row unchanged: last_activity and updated_at are written only after the
\* token, the session and the user have been confirmed.
C21_TouchAfterUserConfirmed ==
    (resp.kind = "validate" /\ resp.status \in {401, 403}) => resp.touched = {}

----------------------------------------------------------------------------
(* Logins served side by side (SpecRace) *)

\* the step in which request p, its token issued, inserts its row: /login
\* goes on to update the user row, /oauth-process answers
CommitStep(p) ==
    /\ rq[p].pc = "create"
    /\ rq'[p].pc # "create"
    /\ Len(sessions') = Len(sessions) + 1
    /\ IF rq[p].kind = "login"
       THEN rq'[p].pc = "update_user" /\ resp' = Idle
       ELSE resp'.status = 200 /\ resp'.respToken = rq[p].token

\* the step in which a /login that has inserted its row answers
AnswerStep(p) ==
    /\ resp'.status = 200
    /\ resp'.respToken = rq[p].token
    /\ sessions' = sessions

\* C22: the conflict check is not repeated when the row is inserted: a
\* non-forced login that has passed the check answers 200 and inserts its row
\* whatever the other request committed in between, so two logins of one user
\* from different devices that both pass the check before either row commits
\* both return 200 and leave two active sessions on different devices.
C22_RaceAccepted ==
    [][\A p \in Procs :
         /\ (rq[p].pc = "create" /\ rq'[p].pc # "create" /\ ~rq[p].forceLogin)
              => CommitStep(p)
         /\ (rq[p].pc = "update_user" /\ rq'[p].pc # "update_user")
              => AnswerStep(p)]_vars

\* the second of two side-by-side password logins answers 200 without force,
\* its check having found nothing, and the user, who had no session, ends
\* with two active sessions on different devices
C22_Witness ==
    /\ resp.kind = "login"
    /\ resp.status = 200
    /\ ~resp.forceLogin
    /\ ~resp.alone
    /\ resp.conflict = NoConflict
    /\ Len(sessions) = 2
    /\ sessions[1].user_id = resp.user.user_id
    /\ sessions[2].user_id = resp.user.user_id
    /\ sessions[1].is_active /\ sessions[2].is_active
    /\ sessions[1].login_method = "email"
    /\ DifferentDevice(sessions[1].device_info, sessions[2].device_info)

----------------------------------------------------------------------------
(* Later logins (SpecLogin) *)

\* the user has two active sessions with different device triplets, not
\* counting the row the answered request inserted last
TwoDevicesBefore ==
    \E i, j \in ActiveOf(sessions, resp.user.user_id, now) :
        /\ i < Len(sessions)
        /\ j < Len(sessions)
        /\ DifferentDevice(sessions[i].device_info, sessions[j].device_info)

\* a login without force that was let in, all its store calls succeeding
LetIn ==
    /\ resp.kind \in {"login", "oauth"}
    /\ ~resp.forceLogin
    /\ resp.ok
    /\ resp.status = 200

\* C23: while a user has two active sessions with different device triplets,
\* no non-forced /login or /oauth-process for that user is let in when its
\* store calls succeed: it returns 409.
C23_LaterLoginRefused ==
    LetIn => ~TwoDevicesBefore

\* the same for the requests that run the conflict check: every /login, and
\* every /oauth-process without registrationData
C23_CheckedLoginRefused ==
    (LetIn /\ ~resp.registrationData) => ~TwoDevicesBefore

\* a login turned away with 409 while two sessions on different devices are
\* active
C23_Refused ==
    /\ resp.kind = "login"
    /\ resp.status = 409
    /\ \E i, j \in ActiveOf(sessions, resp.user.user_id, now) :
         DifferentDevice(sessions[i].device_info, sessions[j].device_info)

\* the step in which request p leaves its forced invalidation
InvalidateStep(p) ==
    /\ rq[p].pc = "invalidate"
    /\ rq'[p].pc # "invalidate"

\* the step leaves no row of user u active that was there before it, and
\* inserts none
EndsAllOf(u) ==
    /\ Len(sessions') = Len(sessions)
    /\ \A i \in DOMAIN sessions : sessions[i].user_id = u => ~sessions'[i].is_active

\* a step that ends a session ends every session of its user
NothingEndedInPart ==
    \A i \in DOMAIN sessions :
        (sessions[i].is_active /\ ~sessions'[i].is_active) =>
            \A j \in DOMAIN sessions :
                sessions[j].user_id = sessions[i].user_id => ~sessions'[j].is_active

\* the forced login p inserts its row, active, in a later step than its
\* invalidation
OwnRowSpared ==
    \A p \in Procs :
        /\ InvalidateStep(p) => (rq'[p].pc = "issue" /\ rq'[p].token = NoToken)
        /\ (rq[p].pc = "create" /\ rq'[p].pc # "create" /\ rq[p].forceLogin) =>
              /\ Len(sessions') = Len(sessions) + 1
              /\ sessions'[Len(sessions')].session_token = rq[p].token
              /\ sessions'[Len(sessions')].user_id = rq[p].user.user_id
              /\ sessions'[Len(sessions')].is_active

\* C24: the invalidateOtherSessions of a forced login is one step: every
\* session row of the user committed before it is inactive after it, no step
\* deactivates only part of a user's rows, and the session the forced login
\* creates is inserted, active, after that step, which therefore does not
\* end it.
C24_InvalidateOthersAtomic ==
    [][/\ \A p \in Procs : InvalidateStep(p) => EndsAllOf(rq[p].user.user_id)
       /\ NothingEndedInPart
       /\ OwnRowSpared]_vars

\* a forced login served beside another login: the row committed before its
\* invalidation is inactive, the row the other login committed after it and
\* its own row are active
C24_Witness ==
    /\ resp.kind \in {"login", "oauth"}
    /\ resp.forceLogin
    /\ resp.status = 200
    /\ ~resp.alone
    /\ Len(sessions) = 3
    /\ ~sessions[1].is_active
    /\ sessions[2].is_active
    /\ sessions[3].is_active
    /\ sessions[2].session_token.iat = sessions[3].session_token.iat

----------------------------------------------------------------------------
(* Expiry in the adapter (SpecExpiry) *)

\* row i of table S is active and unexpired at time t
Live(S, i, t) == S[i].is_active /\ S[i].expires_at > t

\* a step deletes no row, the clock alone changes no row, and a row is ended
\* only by an invalidation that names its token or its user
EndedOnlyByInvalidation ==
    /\ Len(sessions') >= Len(sessions)
    /\ now' # now => sessions' = sessions
    /\ \A i \in DOMAIN sessions :
         (sessions[i].is_active /\ ~sessions'[i].is_active) =>
             \/ /\ last'.op = "invalidateSession"
                /\ last'.token = sessions[i].session_token
             \/ /\ last'.op = "invalidateOtherSessions"
                /\ last'.userId = sessions[i].user_id

\* the row validateSession returns and the rows checkSessionConflict lists
\* are is_active and expire after the instant t
FilteredAt(t) ==
    /\ (last.op = "validateSession" /\ last.valid) =>
            Live(last.pre, last.count, t)
    /\ last.op = "checkSessionConflict" =>
            \A k \in DOMAIN last.conflict.activeSessions :
                Live(last.pre, last.conflict.activeSessions[k], t)

\* C25 as stated: a row with is_active = true whose expires_at is not after
\* now, the instant the store answers, is never returned by validateSession
\* and never listed by checkSessionConflict, and no operation ends or
\* deletes a row because it has expired.
C25_ExpiredAsAnswered ==
    /\ []FilteredAt(last.at)
    /\ [][EndedOnlyByInvalidation]_vars

\* C25: a row with is_active = true whose expires_at is not after the
\* instant the function was called is never returned by validateSession and
\* never listed by checkSessionConflict, and no operation ends or deletes a
\* row because it has expired.
C25_PassiveExpiry ==
    /\ []FilteredAt(last.t)
    /\ [][EndedOnlyByInvalidation]_vars

\* validateSession, the store answering, refuses the token of a row that is
\* still is_active but expired
C25_Witness ==
    /\ last.op = "validateSession"
    /\ ~last.fail
    /\ ~last.valid
    /\ \E i \in DOMAIN sessions :
         /\ sessions[i].session_token = last.token
         /\ sessions[i].is_active
         /\ sessions[i].expires_at <= last.t
    /\ Cardinality({i \in DOMAIN sessions : sessions[i].session_token = last.token}) = 1

\* C26: the users table holds at most one row per email, compared
\* case-insensitively, after any interleaving of /oauth-process requests.
C26_OneUserPerEmail ==
    \A i, j \in DOMAIN users :
        LowerTrim(users[i].email) = LowerTrim(users[j].email) => i = j

----------------------------------------------------------------------------
(* Device classification (SpecDevice).  In a state of SpecDevice, resp is   *)
(* the user agent and last.device the profile extractDeviceInfo returned.   *)

\* the first marker of the list seq the user agent ua contains, as the code
\* names it, or "Unknown"
RECURSIVE FirstFound(_, _)
FirstFound(seq, ua) ==
    IF seq = <<>> THEN "Unknown"
    ELSE IF ua # NoUA /\ Head(seq)[1] \cap ua # {} THEN Head(seq)[2]
    ELSE FirstFound(Tail(seq), ua)

BrowserOrder ==
    << <<{"Chrome"}, "Chrome">>, <<{"Firefox"}, "Firefox">>, <<{"Safari"}, "Safari">>,
       <<{"Edge"}, "Edge">>, <<{"Opera"}, "Opera">> >>

OSOrder ==
    << <<{"Windows"}, "Windows">>, <<{"Mac"}, "macOS">>, <<{"Linux"}, "Linux">>,
       <<{"Android"}, "Android">>, <<{"iPhone", "iPad"}, "iOS">> >>

\* extractDeviceInfo was called with no deviceInfo from the client
Extracted == last.op = "extractDeviceInfo" /\ last.outcome = ""

\* the part of C27 on the order: browser and OS are the first of their list
\* found in the user agent, "Unknown" when none is, also for a missing agent
C27_FirstMatch ==
    Extracted =>
        /\ last.device.browser = FirstFound(BrowserOrder, resp)
        /\ last.device.os = FirstFound(OSOrder, resp)
        /\ last.device.device \in {"Mobile", "Desktop"}

\* C27: browser is the first of Chrome, Firefox, Safari, Edge, Opera found in
\* the user agent and OS the first of Windows, macOS, Linux, Android, iOS
\* found, iOS for an iPhone or iPad agent and Android for an Android agent,
\* "Unknown" for a field with no match; a profile is returned also for a
\* missing user agent.
C27_DeviceClassification ==
    Extracted =>
        /\ last.device.browser = FirstFound(BrowserOrder, resp)
        /\ last.device.os = FirstFound(OSOrder, resp)
        /\ last.device.device \in {"Mobile", "Desktop"}
        /\ (resp # NoUA /\ resp \cap {"iPhone", "iPad"} # {}) => last.device.os = "iOS"
        /\ (resp # NoUA /\ "Android" \in resp) => last.device.os = "Android"

\* the agent of Safari on an iPhone ("... (iPhone; CPU iPhone OS 17_0 like
\* Mac OS X) ... Mobile/15E148 Safari/604.1") is classified as macOS
C27_IPhoneAsMac ==
    /\ Extracted
    /\ resp = UA_SafariIPhone
    /\ last.device = [browser |-> "Safari", os |-> "macOS", device |-> "Mobile"]

----------------------------------------------------------------------------
(* Reactivation (Spec) *)

\* no row is deleted or becomes another session, an inactive row stays
\* inactive, and the rows active after the step were active before it or are
\* new
NoReactivation ==
    /\ Len(sessions') >= Len(sessions)
    /\ \A i \in DOMAIN sessions :
         /\ sessions'[i].session_id = sessions[i].session_id
         /\ sessions'[i].session_token = sessions[i].session_token
         /\ sessions'[i].user_id = sessions[i].user_id
         /\ ~sessions[i].is_active => ~sessions'[i].is_active
    /\ \A i \in DOMAIN sessions' :
         sessions'[i].is_active => (i \notin DOMAIN sessions \/ sessions[i].is_active)

\* C28: a session row whose is_active has become false stays false for ever:
\* no step of any request sets is_active from false to true or deletes a row,
\* so a user gains an active session only by the creation of a new row.
C28_NeverReactivated ==
    [][NoReactivation]_vars

\* a /validate whose activity update wrote to an inactive row, which stays
\* inactive
C28_Witness ==
    /\ resp.kind = "validate"
    /\ resp.status = 200
    /\ \E i \in resp.touched :
         /\ ~sessions[i].is_active
         /\ sessions[i].session_token = resp.token
         /\ sessions[i].last_activity = now

----------------------------------------------------------------------------
(* The failing conflict query (SpecLogin) *)

\* the conflict check of request p in which the store reports an error: the
\* handler is told of no conflict and goes on to issue the token
FailedCheckStep(p) ==
    (rq[p].pc = "conflict" /\ rq'[p].pc # "conflict" /\ nfail' > nfail) =>
        /\ resp' = Idle
        /\ rq'[p].pc = "issue"
        /\ rq'[p].conflict = NoConflict

\* C29: when the session query of checkSessionConflict fails, the result is
\* hasConflict = false, shouldPrompt = false and no activeSessions, and the
\* non-forced /login or /oauth-process goes on: unless createSession fails
\* it issues a token, creates the session and returns 200, not 409 or 500.
C29_FailsOpen ==
    /\ [][\A p \in Procs : FailedCheckStep(p)]_vars
    /\ []((resp.kind \in {"login", "oauth"} /\ ~resp.forceLogin /\ ~resp.ok
             /\ resp.token # NoToken /\ ~CreateFailed) =>
            /\ resp.status = 200
            /\ resp.conflict = NoConflict
            /\ resp.respToken = resp.token
            /\ \E i \in ActiveOf(sessions, resp.user.user_id, now) :
                 sessions[i].session_token = resp.token)

\* a login let in from another device than the user's active session, its
\* conflict query having failed
C29_Witness ==
    /\ resp.kind = "login"
    /\ ~resp.forceLogin
    /\ ~resp.ok
    /\ resp.status = 200
    /\ OnOtherDevice(sessions, resp.user.user_id, now, resp.deviceInfo) # {}

----------------------------------------------------------------------------
(* Validation beside logout (SpecRevoke).  revoked holds the tokens whose   *)
(* session a /logout has invalidated and which that logout has answered.    *)

\* no step writes last_activity of a row that is inactive
InactiveUntouched ==
    \A i \in DOMAIN sessions :
        ~sessions[i].is_active =>
            sessions'[i].last_activity = sessions[i].last_activity

\* C30: once a session's is_active is false its last_activity is not changed
\* any more, and no /validate answers valid:true for a token after the
\* request that invalidated its session has answered.
C30_NothingAfterInvalidation ==
    /\ [][InactiveUntouched]_vars
    /\ []((resp.kind = "validate" /\ resp.token \in revoked) => ~resp.valid)

\* the second half alone
C30_NoValidAfterLogout ==
    (resp.kind = "validate" /\ resp.token \in revoked) => ~resp.valid

====
